---- MODULE Spec2Model ----
(***************************************************************************)
(* Model of the MCQ generation job orchestrator of the UPSC test engine:   *)
(* run_generation, cancel_generation and the stale-job sweeps of           *)
(* backend/app/jobs/tasks.py, the generation fan-out of                    *)
(* backend/app/services/mcq_generation_service.py, the parser of           *)
(* backend/app/llm/gemini_impl.py and the question endpoints of            *)
(* backend/app/api/tests.py.                                               *)
(***************************************************************************)
EXTENDS Integers, Sequences, FiniteSets, TLC

VARIABLES
    tests,      \* generated_tests rows: job id -> row
    questions,  \* questions rows: job id -> sequence of rows (insertion order)
    topic_rows, \* number of rows of topic_list
    sem,        \* free permits of _generation_semaphore
    tick,       \* index of the wall clock into the time points
    pc,         \* position of each job's run_generation invocation
    run,        \* locals of each job's run_generation invocation
    resp,       \* response of the last API request
    req,        \* the add_question request in flight between its count and its commit
    calc        \* a call of a service function: its name, arguments and result

vars == <<tests, questions, topic_rows, sem, tick, pc, run, resp, req, calc>>

----------------------------------------------------------------------------
(* Bounds of the model *)

MaxTick == 3            \* the clock advances through MaxTick + 1 time points
MaxTarget == 2          \* target_questions of a job is drawn from 1..MaxTarget

(* Program constants *)

SEM_CAPACITY == 3
MAX_STALE_GENERATION_SECONDS == 1200
MIN_EXTRACTION_WORDS == 500
MAX_SINGLE_CALL_CHARS == 600000
MIN_QUESTIONS == 1
MAX_QUESTIONS == 20
PARALLEL_CANDIDATES == 4
REASON_MAX_CHARS == 512
CHUNKS_PER_TIMEOUT_STEP == 10
TIMEOUT_STEP_SECONDS == 60
RAG_MIN_CHUNKS_FOR_GLOBAL == 20
RAG_OUTLINE_MAX_CHUNKS == 10

----------------------------------------------------------------------------
(* Small helpers *)

Min(a, b) == IF a < b THEN a ELSE b
Max(a, b) == IF a > b THEN a ELSE b

Jobs == DOMAIN tests

Users == {"u1", "u2"}

Terminal == {"completed", "partial", "failed", "failed_timeout"}
Cancellable == {"pending", "generating"}
Statuses == Cancellable \cup Terminal

\* The wall clock: seconds since the first job was created, at clock index i.
Clock(i) ==
    CASE i = 0 -> 0
      [] i = 1 -> 1200
      [] i = 2 -> 1260
      [] i = 3 -> 1261
      [] OTHER -> 1261 + (i - 3) * 1300

Now == Clock(tick)

\* A message text with its length; str(e) of an exception is known by length only.
Msg(text) == [text |-> text, len |-> Len(text)]
ExcMsg(n) == [text |-> "exception", len |-> n]
NoneReason == [text |-> "None", len |-> 0]

\* reason[:512]
Truncate(m, n) == [m EXCEPT !.len = Min(@, n)]

----------------------------------------------------------------------------
(* Documents, as run_generation reads them *)

Doc(exists, status, words, chars, chunks) ==
    [exists |-> exists, status |-> status, words |-> words, chars |-> chars,
     num_chunks |-> chunks]

MissingDoc    == Doc(FALSE, "none", 0, 0, 0)
ProcessingDoc == Doc(TRUE, "processing", 800, 5000, 4)
EmptyDoc      == Doc(TRUE, "ready", 0, 0, 0)
FewWordsDoc   == Doc(TRUE, "ready", MIN_EXTRACTION_WORDS - 1, 3000, 3)
ShortDoc      == Doc(TRUE, "ready", MIN_EXTRACTION_WORDS, 3200, 3)
LongDoc       == Doc(TRUE, "ready", 100000, MAX_SINGLE_CALL_CHARS, 12)
NoDoc         == Doc(FALSE, "unread", 0, 0, 0)

DocCases == {MissingDoc, ProcessingDoc, EmptyDoc, FewWordsDoc, ShortDoc, LongDoc}

----------------------------------------------------------------------------
(* MCQs: the items of the model's JSON and what _parse_mcqs_json makes of them *)

Labels == <<"A", "B", "C", "D", "E">>
ABCD == {"A", "B", "C", "D"}
ABCDE == {"A", "B", "C", "D", "E"}

\* str.strip().upper() and str.strip().lower() on the strings the model uses
Upper(s) ==
    CASE s = "a" -> "A" [] s = "b" -> "B" [] s = "c" -> "C" [] s = "d" -> "D"
      [] s = "e" -> "E" [] s = " B " -> "B"
      [] OTHER -> s

Lower(s) ==
    CASE s = "Easy" -> "easy" [] s = "MEDIUM" -> "medium" [] s = "Hard" -> "hard"
      [] s = "Incorrect Key" -> "incorrect key"
      [] s = "Which" -> "which" [] s = "Article" -> "article"
      [] s = "Wrong answer" -> "wrong answer"
      [] OTHER -> s

\* Options as the JSON carries them: an object (its keys), an array (its
\* length) or anything else.
DictOptions(keys) == [kind |-> "dict", keys |-> keys, n |-> 0]
ListOptions(n)    == [kind |-> "list", keys |-> {}, n |-> n]
OtherOptions      == [kind |-> "other", keys |-> {}, n |-> 0]

\* The word tokens of the stem of the item numbered id, as the LLM wrote it
StemOf(id) ==
    CASE id = 1 -> {"which", "article", "abolished", "untouchability", "in", "india"}
      [] id = 2 -> {"who", "chairs", "the", "rajya", "sabha"}
      [] id = 3 -> {"which", "schedule", "lists", "the", "languages"}
      [] id = 4 -> {"which", "article", "abolishes", "untouchability", "in", "india"}
      [] OTHER -> {}

\* The word tokens of the option texts of the item numbered id
OptionWordsOf(id) ==
    CASE id = 1 -> {"article", "14", "15", "17", "21"}
      [] id = 2 -> {"president", "vice", "speaker", "prime", "minister"}
      [] id = 3 -> {"seventh", "eighth", "ninth", "tenth"}
      [] id = 4 -> {"article", "14", "16", "17", "19"}
      [] OTHER -> {}

\* One item of the "mcqs" array; critique is the set of phrases the validator's
\* critique of this item contains.
RawMcq(id, options, correct, difficulty, critique) ==
    [id |-> id, question |-> StemOf(id), option_words |-> OptionWordsOf(id),
     options |-> options, correct_option |-> correct,
     difficulty |-> difficulty, critique |-> critique]

\* gemini_impl._parse_mcqs_json, the options of one item
ParseOptions(o) ==
    CASE o.kind = "list" ->
            DictOptions({Labels[i] : i \in 1..Min(o.n, 4)} \cup ABCD)
      [] o.kind = "dict" -> DictOptions(o.keys \cup ABCD)
      [] OTHER -> DictOptions(ABCD)

\* gemini_impl._parse_mcqs_json, the correct option of one item
ParseCorrect(c) ==
    LET u == Upper(IF c = "" THEN "A" ELSE c)
    IN  IF u \in ABCD THEN u ELSE "A"

\* gemini_impl._parse_mcqs_json, the difficulty of one item
ParseDifficulty(d) ==
    LET l == Lower(IF d = "" THEN "medium" ELSE d)
    IN  IF l \in {"easy", "medium", "hard"} THEN l ELSE "medium"

\* gemini_impl._parse_mcqs_json, one item
ParseMcq(m) ==
    [id |-> m.id,
     question |-> m.question,
     option_words |-> m.option_words,
     options |-> ParseOptions(m.options),
     correct_option |-> ParseCorrect(m.correct_option),
     difficulty |-> ParseDifficulty(m.difficulty),
     critique |-> m.critique]

ParseMcqs(items) == [i \in 1..Len(items) |-> ParseMcq(items[i])]

----------------------------------------------------------------------------
(* Selection in run_generation: drop bad critiques, medium first, first N *)

BAD_CRITIQUE_SUBSTRINGS ==
    {"incorrect key", "wrong answer", "incorrect answer", "key is wrong",
     "explanation is wrong"}

\* A test of the critique as the validator wrote it, without lower()
HasBadCritiqueCaseSensitive(m) ==
    \E p \in m.critique : p \in BAD_CRITIQUE_SUBSTRINGS

\* any(bad in critique.lower() for bad in BAD_CRITIQUE_SUBSTRINGS)
HasBadCritique(m) ==
    \E p \in m.critique : Lower(p) \in BAD_CRITIQUE_SUBSTRINGS

KeepMcq(m) == ~HasBadCritique(m)

DropBadCritique(mcqs) == SelectSeq(mcqs, KeepMcq)

DifficultyKey(m) ==
    IF m.difficulty = "medium" THEN 0 ELSE IF m.difficulty = "easy" THEN 1 ELSE 2

IsKey0(m) == DifficultyKey(m) = 0
IsKey1(m) == DifficultyKey(m) = 1
IsKey2(m) == DifficultyKey(m) = 2

\* sorted(mcqs, key=key): a stable sort on a three-valued key
SortMediumFirst(mcqs) ==
    SelectSeq(mcqs, IsKey0) \o SelectSeq(mcqs, IsKey1) \o SelectSeq(mcqs, IsKey2)

Take(s, n) == SubSeq(s, 1, Min(n, Len(s)))

\* a selection that gives nothing when the target is not met
SelectMcqsOrNothing(all_mcqs, target_n) ==
    IF Len(DropBadCritique(all_mcqs)) < target_n THEN <<>>
    ELSE Take(SortMediumFirst(DropBadCritique(all_mcqs)), target_n)

SelectMcqs(all_mcqs, target_n) ==
    Take(SortMediumFirst(DropBadCritique(all_mcqs)), target_n)

----------------------------------------------------------------------------
(* services/dedupe.py; thresholds in hundredths *)

JACCARD_THRESHOLD == 75
OVERLAP_THRESHOLD == 75
OPTIONS_JACCARD_THRESHOLD == 45

\* dedupe._tokenize on a text given as the set of its words: lower-cased words
Tokenize(words) == {Lower(w) : w \in words}

\* jaccard(a, b) >= pct / 100
JaccardAtLeast(a, b, pct) ==
    IF a = {} /\ b = {} THEN 100 >= pct
    ELSE IF a = {} \/ b = {} THEN 0 >= pct
    ELSE 100 * Cardinality(a \cap b) >= pct * Cardinality(a \cup b)

\* a ratio over the first set alone
OverlapOfFirstAtLeast(a, b, pct) ==
    IF a = {} \/ b = {} THEN 0 >= pct
    ELSE 100 * Cardinality(a \cap b) >= pct * Cardinality(a)

\* stem_overlap_ratio(a, b) >= pct / 100
OverlapAtLeast(a, b, pct) ==
    IF a = {} \/ b = {} THEN 0 >= pct
    ELSE 100 * Cardinality(a \cap b) >= pct * Min(Cardinality(a), Cardinality(b))

\* dedupe.are_duplicate_mcqs with its default thresholds
AreDuplicateMcqs(m1, m2) ==
    LET q1 == Tokenize(m1.question)
        q2 == Tokenize(m2.question)
    IN  \/ JaccardAtLeast(q1, q2, JACCARD_THRESHOLD)
        \/ OverlapAtLeast(q1, q2, OVERLAP_THRESHOLD)
        \/ /\ m1.correct_option = m2.correct_option
           /\ JaccardAtLeast(Tokenize(m1.option_words), Tokenize(m2.option_words),
                             OPTIONS_JACCARD_THRESHOLD)

\* dedupe.deduplicate_mcqs: the first of each cluster, in order
RECURSIVE DedupInto(_, _)
DedupInto(kept, rest) ==
    IF rest = <<>> THEN kept
    ELSE IF \E i \in 1..Len(kept) : AreDuplicateMcqs(Head(rest), kept[i])
         THEN DedupInto(kept, Tail(rest))
         ELSE DedupInto(Append(kept, Head(rest)), Tail(rest))

DeduplicateMcqs(mcqs) == DedupInto(<<>>, mcqs)

\* target_n = max(MIN_QUESTIONS, min(MAX_QUESTIONS, int(target_n)))
TargetN(test) == Max(MIN_QUESTIONS, Min(MAX_QUESTIONS, test.target_questions))

\* Options as the questions table stores them
StoredDict(keys)   == [kind |-> "dict", keys |-> keys, labels |-> <<>>]
StoredList(labels) == [kind |-> "list", keys |-> {}, labels |-> labels]

\* The Question row run_generation adds for the i-th selected MCQ
QuestionRow(i, m) ==
    [sort_order |-> i,
     question |-> m.question,
     option_words |-> m.option_words,
     options |-> StoredDict(m.options.keys),
     correct_option |-> Upper(m.correct_option),
     validation_result |-> m.critique,
     source |-> "generated"]

QuestionRows(mcqs) == [i \in 1..Len(mcqs) |-> QuestionRow(i, mcqs[i])]

----------------------------------------------------------------------------
(* The generated_tests row and the locals of one run_generation invocation *)

\* partial_reason is the column of migration 009; no code writes it.
NewTest(user, target) ==
    [user_id |-> user, document_id |-> "d1", status |-> "pending",
     failure_reason |-> NoneReason, partial_reason |-> NoneReason,
     target_questions |-> target, questions_generated |-> 0,
     stale_timeout_sec |-> 0, updated_at |-> 0]

\* elapsed is the time from run_start to the run's last commit.
NewRun ==
    [sem_acquired |-> FALSE, run_start |-> 0, doc |-> NoDoc, timeout_sec |-> 0,
     pending |-> {}, failed |-> <<>>, all_mcqs |-> <<>>, selected |-> 0,
     elapsed |-> 0, llm_calls |-> 0, exit |-> "none"]

\* tasks._mark_failed: the row after the commit at time now
MarkFailed(test, reason, now) ==
    [test EXCEPT !.status = "failed",
                 !.failure_reason =
                     IF reason.len > 0 THEN Truncate(reason, REASON_MAX_CHARS)
                     ELSE NoneReason,
                 !.updated_at = now]

\* str(e)[:512] if str(e) else "Unknown error"
ExceptionReason(n) ==
    IF n > 0 THEN Truncate(ExcMsg(n), REASON_MAX_CHARS) ELSE Msg("Unknown error")

\* The guards without the minimum word count
GuardFailureNoWordCount(doc) ==
    CASE ~doc.exists -> Msg("Document not found")
      [] doc.status # "ready" ->
            Msg("Document is not ready for generation (status must be ready; run extraction first).")
      [] doc.chars = 0 -> Msg("Document has no extracted text.")
      [] OTHER -> NoneReason

\* The document guards of run_generation, in order; NoneReason when all pass
GuardFailure(doc) ==
    CASE ~doc.exists -> Msg("Document not found")
      [] doc.status # "ready" ->
            Msg("Document is not ready for generation (status must be ready; run extraction first).")
      [] doc.chars = 0 -> Msg("Document has no extracted text.")
      [] doc.words < MIN_EXTRACTION_WORDS ->
            Msg("Extracted text has fewer than 500 words; need more content for generation.")
      [] OTHER -> NoneReason

NoTopicRows == Msg("No topic_list rows")
NoValidMcqs == Msg("No valid MCQs after filtering (text pipeline).")
CancelledByUser == Msg("Cancelled by user")
StaleReason == Msg("Timed out (stale generating)")
RunExceeded == Msg("Run exceeded timeout_sec s")
ImportErrorMsg ==
    Msg("cannot import name 'MAX_QUESTIONS_PER_GENERATION' from 'app.schemas.test'")

\* timeout_sec = base_stale_sec + (num_chunks // 10 * 60)
TimeoutSec(num_chunks) ==
    MAX_STALE_GENERATION_SECONDS
        + (num_chunks \div CHUNKS_PER_TIMEOUT_STEP) * TIMEOUT_STEP_SECONDS

----------------------------------------------------------------------------
(* run_generation, one action per stretch between two commits *)

\* Lines 130-145: find the job, set it generating, commit.
RunStart(j) ==
    /\ pc[j] = "idle"
    /\ tests' = [tests EXCEPT ![j].status = "generating", ![j].updated_at = Now]
    /\ run' = [run EXCEPT ![j].run_start = Now]
    /\ pc' = [pc EXCEPT ![j] = "guards"]
    /\ UNCHANGED <<questions, topic_rows, sem, tick, resp, req, calc>>

\* Lines 147-164: the document guards; a failing guard marks the job failed
\* and returns through the finally block.
RunGuards(j, doc) ==
    /\ pc[j] = "guards"
    /\ IF GuardFailure(doc) # NoneReason
       THEN /\ tests' = [tests EXCEPT ![j] = MarkFailed(@, GuardFailure(doc), Now)]
            /\ run' = [run EXCEPT ![j].doc = doc, ![j].exit = "guard"]
            /\ pc' = [pc EXCEPT ![j] = "finally"]
       ELSE /\ run' = [run EXCEPT ![j].doc = doc]
            /\ pc' = [pc EXCEPT ![j] = "acquire"]
            /\ UNCHANGED tests
    /\ UNCHANGED <<questions, topic_rows, sem, tick, resp, req, calc>>

\* An acquire that does not wait for a permit
RunAcquireNoWait(j) ==
    /\ pc[j] = "acquire"
    /\ sem' = Max(sem - 1, 0)
    /\ run' = [run EXCEPT ![j].sem_acquired = TRUE]
    /\ pc' = [pc EXCEPT ![j] = "topics"]
    /\ UNCHANGED <<tests, questions, topic_rows, tick, resp, req, calc>>

\* Lines 166-167: _generation_semaphore.acquire() blocks while no permit is free.
RunAcquire(j) ==
    /\ pc[j] = "acquire"
    /\ sem > 0
    /\ sem' = sem - 1
    /\ run' = [run EXCEPT ![j].sem_acquired = TRUE]
    /\ pc' = [pc EXCEPT ![j] = "topics"]
    /\ UNCHANGED <<tests, questions, topic_rows, tick, resp, req, calc>>

\* Lines 169-179: the topic taxonomy guard.
RunTopics(j) ==
    /\ pc[j] = "topics"
    /\ IF topic_rows = 0
       THEN /\ tests' = [tests EXCEPT ![j] = MarkFailed(@, NoTopicRows, Now)]
            /\ run' = [run EXCEPT ![j].exit = "guard"]
            /\ pc' = [pc EXCEPT ![j] = "finally"]
       ELSE /\ pc' = [pc EXCEPT ![j] = "prepare"]
            /\ UNCHANGED <<tests, run>>
    /\ UNCHANGED <<questions, topic_rows, sem, tick, resp, req, calc>>

\* summarize_chunk for the first rag_outline_max_chunks chunks and one
\* generate_global_outline, when num_chunks > rag_min_chunks_for_global
OutlineCalls(num_chunks) ==
    IF num_chunks > RAG_MIN_CHUNKS_FOR_GLOBAL
    THEN Min(RAG_OUTLINE_MAX_CHUNKS, num_chunks) + 1
    ELSE 0

\* Lines 181-252: chunk the text, build the outline, store the timeout budget.
RunPrepare(j) ==
    /\ pc[j] = "prepare"
    /\ LET t == TimeoutSec(run[j].doc.num_chunks)
       IN  /\ tests' = [tests EXCEPT ![j].stale_timeout_sec = t,
                                     ![j].updated_at = Now]
           /\ run' = [run EXCEPT ![j].timeout_sec = t,
                                 ![j].llm_calls = @ + OutlineCalls(run[j].doc.num_chunks)]
    /\ pc' = [pc EXCEPT ![j] = "generate"]
    /\ UNCHANGED <<questions, topic_rows, sem, tick, resp, req, calc>>

----------------------------------------------------------------------------
(* generate_mcqs_with_rag, as run_generation calls it *)

\* groups of the quotient size only, the remainder left out
GroupSizeQuotient(size, n, i) ==
    IF size = 0 \/ n <= 0 THEN 0 ELSE size \div n

\* mcq_generation_service._partition_chunks: the size of group i (0-based) of n
GroupSize(size, n, i) ==
    IF size = 0 \/ n <= 0 THEN 0
    ELSE IF n >= size THEN (IF i < size THEN 1 ELSE 0)
    ELSE (size \div n) + (IF i < size % n THEN 1 ELSE 0)

Workers == 0..(PARALLEL_CANDIDATES - 1)

\* A handler that logs the exception and leaves the job row as it is
HandleLogOnly(j, reason) ==
    /\ UNCHANGED tests
    /\ run' = [run EXCEPT ![j].exit = "exception",
                          ![j].elapsed = Now - run[j].run_start]
    /\ pc' = [pc EXCEPT ![j] = "finally"]

\* The handler of run_generation (lines 369-381): mark the job failed with the
\* exception's message, then go on to the finally block. The handler's own query
\* and commit are taken to succeed (the database is reachable).
Handle(j, reason) ==
    /\ tests' = [tests EXCEPT ![j] = MarkFailed(@, reason, Now)]
    /\ run' = [run EXCEPT ![j].exit = "exception",
                          ![j].elapsed = Now - run[j].run_start]
    /\ pc' = [pc EXCEPT ![j] = "finally"]

\* Entry of generate_mcqs_with_rag (lines 150-222). On the fast path the import
\* of MAX_QUESTIONS_PER_GENERATION, a name app.schemas.test does not define,
\* raises before the LLM is called; the exception leaves generate_mcqs_with_rag
\* and is handled by run_generation. Otherwise the workers are submitted.
RunGenerateCore(j) ==
    /\ pc[j] = "generate"
    /\ LET doc == run[j].doc
       IN  IF doc.chars > 0 /\ doc.chars < MAX_SINGLE_CALL_CHARS
           THEN Handle(j, ImportErrorMsg)
           ELSE IF doc.num_chunks = 0
                THEN /\ pc' = [pc EXCEPT ![j] = "finish"]
                     /\ UNCHANGED <<tests, run>>
                ELSE /\ pc' = [pc EXCEPT ![j] = "workers"]
                     /\ run' = [run EXCEPT ![j].pending = Workers]
                     /\ UNCHANGED tests
    /\ UNCHANGED <<questions, topic_rows, sem, tick, resp, req>>

RunGenerate(j) == RunGenerateCore(j) /\ UNCHANGED calc

\* a retry round whenever a candidate failed
RetryWantedAnyFailed(failed, all_mcqs, target_n) == failed # <<>>

\* if failed_candidate_indices and len(all_mcqs) < target_n
RetryWanted(failed, all_mcqs, target_n) ==
    failed # <<>> /\ Len(all_mcqs) < target_n

\* Lines 224-284: worker w completes with the items its LLM call returned (none
\* when the call raised); the result is gathered and the heartbeat touches the job.
WorkerDoneCore(j, w, items) ==
    /\ pc[j] = "workers"
    /\ w \in run[j].pending
    /\ LET called == GroupSize(run[j].doc.num_chunks, PARALLEL_CANDIDATES, w) > 0
           out == IF called THEN ParseMcqs(items) ELSE <<>>
           all == run[j].all_mcqs \o out
           failed == IF out = <<>> THEN Append(run[j].failed, w) ELSE run[j].failed
           left == run[j].pending \ {w}
       IN  /\ run' = [run EXCEPT ![j].all_mcqs = all,
                                 ![j].failed = failed,
                                 ![j].pending = left,
                                 ![j].llm_calls = @ + (IF called THEN 1 ELSE 0)]
           /\ pc' = [pc EXCEPT ![j] =
                        IF left # {} THEN "workers"
                        ELSE IF RetryWanted(failed, all, TargetN(tests[j]))
                             THEN "retry" ELSE "finish"]
    /\ tests' = [tests EXCEPT ![j].updated_at = Now]
    /\ UNCHANGED <<questions, topic_rows, sem, tick, resp, req>>

WorkerDone(j, w, items) == WorkerDoneCore(j, w, items) /\ UNCHANGED calc

\* Lines 285-295: the next failed worker is run again, once, in the caller's thread.
RetryOneCore(j, items) ==
    /\ pc[j] = "retry"
    /\ run[j].failed # <<>>
    /\ LET w == Head(run[j].failed)
           called == GroupSize(run[j].doc.num_chunks, PARALLEL_CANDIDATES, w) > 0
           out == IF called THEN ParseMcqs(items) ELSE <<>>
       IN  run' = [run EXCEPT ![j].all_mcqs = @ \o out,
                              ![j].failed = Tail(@),
                              ![j].llm_calls = @ + (IF called THEN 1 ELSE 0)]
    /\ pc' = [pc EXCEPT ![j] = IF Len(run[j].failed) = 1 THEN "finish" ELSE "retry"]
    /\ UNCHANGED <<tests, questions, topic_rows, sem, tick, resp, req>>

RetryOne(j, items) == RetryOneCore(j, items) /\ UNCHANGED calc

\* An outcome that asks for more than target_n questions before completed
OutcomeStrict(test, mcqs, target_n, elapsed, timeout_sec, now) ==
    [test EXCEPT
        !.status = IF elapsed > timeout_sec THEN "failed_timeout"
                   ELSE IF Len(mcqs) > target_n THEN "completed" ELSE "partial",
        !.failure_reason = IF elapsed > timeout_sec THEN RunExceeded ELSE NoneReason,
        !.questions_generated = Len(mcqs),
        !.updated_at = now]

\* An outcome without the timeout override
OutcomeNoTimeout(test, mcqs, target_n, elapsed, timeout_sec, now) ==
    [test EXCEPT
        !.status = IF Len(mcqs) >= target_n THEN "completed" ELSE "partial",
        !.failure_reason = NoneReason,
        !.questions_generated = Len(mcqs),
        !.updated_at = now]

\* The job row after lines 317-329
Outcome(test, mcqs, target_n, elapsed, timeout_sec, now) ==
    [test EXCEPT
        !.status = IF elapsed > timeout_sec THEN "failed_timeout"
                   ELSE IF Len(mcqs) >= target_n THEN "completed" ELSE "partial",
        !.failure_reason = IF elapsed > timeout_sec THEN RunExceeded ELSE NoneReason,
        !.questions_generated = Len(mcqs),
        !.updated_at = now]

\* The validation loop of generate_mcqs_with_rag (lines 323-343), then lines
\* 282-329 of run_generation: selection, and either no MCQ is left and the job is
\* marked failed, or the rows are replaced and the outcome is stored in one commit.
RunFinish(j) ==
    /\ pc[j] = "finish"
    /\ LET mcqs == SelectMcqs(run[j].all_mcqs, TargetN(tests[j]))
       IN  /\ run' = [run EXCEPT ![j].llm_calls = @ + Len(run[j].all_mcqs),
                                 ![j].selected = Len(mcqs),
                                 ![j].elapsed = Now - run[j].run_start,
                                 ![j].exit = IF mcqs = <<>> THEN "no_mcqs" ELSE "finished"]
           /\ IF mcqs = <<>>
              THEN /\ tests' = [tests EXCEPT ![j] = MarkFailed(@, NoValidMcqs, Now)]
                   /\ UNCHANGED questions
              ELSE /\ questions' = [questions EXCEPT ![j] = QuestionRows(mcqs)]
                   /\ tests' = [tests EXCEPT ![j] =
                                   Outcome(@, mcqs, TargetN(tests[j]),
                                           Now - run[j].run_start,
                                           run[j].timeout_sec, Now)]
    /\ pc' = [pc EXCEPT ![j] = "finally"]
    /\ UNCHANGED <<topic_rows, sem, tick, resp, req, calc>>

\* a finally block that releases whether or not the run acquired
RunFinallyAlwaysRelease(j) ==
    /\ pc[j] = "finally"
    /\ sem' = Min(sem + 1, SEM_CAPACITY)
    /\ pc' = [pc EXCEPT ![j] = "done"]
    /\ UNCHANGED <<tests, questions, topic_rows, tick, run, resp, req, calc>>

\* Lines 382-389: the finally block releases the permit the run holds.
RunFinally(j) ==
    /\ pc[j] = "finally"
    /\ sem' = IF run[j].sem_acquired THEN Min(sem + 1, SEM_CAPACITY) ELSE sem
    /\ pc' = [pc EXCEPT ![j] = "done"]
    /\ UNCHANGED <<tests, questions, topic_rows, tick, run, resp, req, calc>>

RaisingSteps == {"guards", "topics", "prepare", "generate", "finish"}

\* Lines 369-381: a step outside the workers' own try blocks raises an exception
\* whose message has n characters; nothing of the step is committed.
RunRaise(j, n) ==
    /\ pc[j] \in RaisingSteps
    /\ Handle(j, ExceptionReason(n))
    /\ UNCHANGED <<questions, topic_rows, sem, tick, resp, req, calc>>

----------------------------------------------------------------------------
(* Cancellation and the stale-job sweeps *)

Response(op, job, user, code) == [op |-> op, job |-> job, user |-> user, code |-> code]
NoResponse == Response("none", "none", "none", 0)

\* A cancel that does not look at the status
CanCancelAnyStatus(test, user) ==
    test.user_id = user

\* tasks.cancel_generation: the job it finds and may cancel
CanCancel(test, user) ==
    test.user_id = user /\ test.status \in {"pending", "generating"}

\* tasks.cancel_generation: the row it commits
CancelledRow(test, now) ==
    [test EXCEPT !.status = "failed", !.failure_reason = CancelledByUser,
                 !.updated_at = now]

\* POST /tests/{id}/cancel: cancel_test around cancel_generation
CancelTest(j, u) ==
    /\ IF CanCancel(tests[j], u)
       THEN /\ tests' = [tests EXCEPT ![j] = CancelledRow(@, Now)]
            /\ resp' = Response("cancel", j, u, 200)
       ELSE /\ UNCHANGED tests
            /\ resp' = Response("cancel", j, u,
                                IF tests[j].user_id # u THEN 404 ELSE 400)
    /\ UNCHANGED <<questions, topic_rows, sem, tick, pc, run, req, calc>>

\* meta.get("stale_timeout_sec") or settings.max_stale_generation_seconds
OwnTimeout(test) ==
    IF test.stale_timeout_sec # 0 THEN test.stale_timeout_sec
    ELSE MAX_STALE_GENERATION_SECONDS

Age(test, now) == now - test.updated_at

\* tasks.clear_one_stuck_test_if_stale(test_id, max_age_seconds): the row it leaves
ClearOneStuckTestIfStale(test, max_age_seconds, now) ==
    IF test.status \notin {"pending", "generating"} THEN test
    ELSE IF Age(test, now) <= max_age_seconds THEN test
    ELSE [test EXCEPT !.status = "failed_timeout", !.failure_reason = StaleReason,
                      !.updated_at = now]

\* GET /tests/{id}: get_test, with its on-read sweep of the job it returns
GetTest(j, u) ==
    /\ IF tests[j].user_id # u
       THEN /\ UNCHANGED tests
            /\ resp' = Response("get", j, u, 404)
       ELSE /\ LET timeout == OwnTimeout(tests[j])
               IN  tests' = [tests EXCEPT ![j] =
                       IF @.status \in {"pending", "generating"} /\ Age(@, Now) > timeout
                       THEN ClearOneStuckTestIfStale(@, timeout, Now)
                       ELSE @]
            /\ resp' = Response("get", j, u, 200)
    /\ UNCHANGED <<questions, topic_rows, sem, tick, pc, run, req, calc>>

\* tasks.clear_stuck_generating_tests(max_age_seconds): the row the raw UPDATE
\* leaves (status only; neither failure_reason nor updated_at is written)
ClearStuckRow(test, max_age_seconds, now) ==
    IF test.status \in {"pending", "generating"}
       /\ test.updated_at < now - max_age_seconds
    THEN [test EXCEPT !.status = "failed_timeout"]
    ELSE test

\* main.startup: the sweep a starting process runs over all jobs
ClearStuckGeneratingTests ==
    /\ tests' = [j \in Jobs |->
                    ClearStuckRow(tests[j], MAX_STALE_GENERATION_SECONDS, Now)]
    /\ UNCHANGED <<questions, topic_rows, sem, tick, pc, run, resp, req, calc>>

----------------------------------------------------------------------------
(* Manual edits of a test's questions: POST and PATCH under /tests/{id}/questions *)

NoneOptions == [kind |-> "none", keys |-> {}, labels |-> <<>>]

\* The word tokens of the stem and of the option texts a user types
ManualStem == {"what", "is", "the", "preamble"}
ManualOptionWords == {"introduction", "schedule", "amendment", "article"}
NoneCorrect == "None"

\* schemas.test._validate_options_dict: A, B, C and D are keys (other keys pass)
ValidateOptionsDict(o) == ABCD \subseteq o.keys

\* schemas.test._validate_options_list: 4 or 5 items whose labels, stripped and
\* upper-cased, are A, B, C, D[, E]
ValidateOptionsList(o) ==
    /\ Len(o.labels) \in {4, 5}
    /\ \A i \in 1..Len(o.labels) : Upper(o.labels[i]) = Labels[i]

\* The options_shape validator of QuestionPayload and QuestionPatchRequest
OptionsShape(o) ==
    IF o.kind = "list" THEN ValidateOptionsList(o) ELSE ValidateOptionsDict(o)

\* The correct_option validator of both schemas
CorrectOptionOneOf(c) == c \in ABCDE

\* POST /tests/{id}/questions: add_question behind the QuestionPayload validators
AddQuestion(j, u, options, correct) ==
    /\ IF ~(OptionsShape(options) /\ CorrectOptionOneOf(correct))
       THEN /\ resp' = Response("add", j, u, 422)
            /\ UNCHANGED questions
       ELSE IF tests[j].user_id # u
       THEN /\ resp' = Response("add", j, u, 404)
            /\ UNCHANGED questions
       ELSE IF Len(questions[j]) >= TargetN(tests[j])
       THEN /\ resp' = Response("add", j, u, 400)
            /\ UNCHANGED questions
       ELSE /\ resp' = Response("add", j, u, 201)
            /\ questions' = [questions EXCEPT ![j] =
                    Append(@, [sort_order |-> Len(@) + 1,
                               question |-> ManualStem,
                               option_words |-> ManualOptionWords,
                               options |-> options,
                               correct_option |-> correct,
                               validation_result |-> {},
                               source |-> "manual"])]
    /\ UNCHANGED <<tests, topic_rows, sem, tick, pc, run, req, calc>>

\* PATCH /tests/{id}/questions/{qid}: patch_question behind the
\* QuestionPatchRequest validators; a field that is None is left as it is
PatchQuestion(j, u, i, options, correct) ==
    /\ IF ~((options = NoneOptions \/ OptionsShape(options))
            /\ (correct = NoneCorrect \/ CorrectOptionOneOf(correct)))
       THEN /\ resp' = Response("patch", j, u, 422)
            /\ UNCHANGED questions
       ELSE IF tests[j].user_id # u \/ i \notin 1..Len(questions[j])
       THEN /\ resp' = Response("patch", j, u, 404)
            /\ UNCHANGED questions
       ELSE /\ resp' = Response("patch", j, u, 200)
            /\ questions' = [questions EXCEPT ![j][i] =
                    [@ EXCEPT !.options = IF options = NoneOptions THEN @ ELSE options,
                              !.correct_option =
                                  IF correct = NoneCorrect THEN @ ELSE correct]]
    /\ UNCHANGED <<tests, topic_rows, sem, tick, pc, run, req, calc>>

\* No service function is being called.
NoCall == [fn |-> "none"]

\* add_question between its count (line 375) and its commit (line 393)
NoRequest == [job |-> "none", count |-> 0, options |-> NoneOptions, correct |-> NoneCorrect]

\* Lines 365-381 of add_question for a payload that passes the validators and a
\* caller who owns the test: the rows are counted and the cap is checked.
AddQuestionCount(j, u, options, correct) ==
    /\ req = NoRequest
    /\ OptionsShape(options) /\ CorrectOptionOneOf(correct)
    /\ tests[j].user_id = u
    /\ Len(questions[j]) < TargetN(tests[j])
    /\ req' = [job |-> j, count |-> Len(questions[j]),
               options |-> options, correct |-> correct]
    /\ UNCHANGED <<tests, questions, topic_rows, sem, tick, pc, run, resp, calc>>

\* Lines 381-395 of add_question: the row is inserted after the rows counted.
AddQuestionCommit ==
    /\ req # NoRequest
    /\ questions' = [questions EXCEPT ![req.job] =
            Append(@, [sort_order |-> req.count + 1,
                       question |-> ManualStem,
                       option_words |-> ManualOptionWords,
                       options |-> req.options,
                       correct_option |-> req.correct,
                       validation_result |-> {},
                       source |-> "manual"])]
    /\ resp' = Response("add", req.job, tests[req.job].user_id, 201)
    /\ req' = NoRequest
    /\ UNCHANGED <<tests, topic_rows, sem, tick, pc, run, calc>>

\* Time passes.
Tick ==
    /\ tick < MaxTick
    /\ tick' = tick + 1
    /\ UNCHANGED <<tests, questions, topic_rows, sem, pc, run, resp, req, calc>>

----------------------------------------------------------------------------
(* The job lifecycle: one job, its run, cancellation, the sweeps and the clock *)

GoodItem == RawMcq(1, DictOptions(ABCD), "b", "MEDIUM", {"correct"})
HardItem == RawMcq(2, ListOptions(4), "C", "Hard", {})
BadItem  == RawMcq(3, DictOptions(ABCD), "A", "medium", {"Incorrect Key"})

WorkerItems == {<<>>, <<GoodItem>>, <<BadItem>>}

ExceptionLengths == {0, 40, REASON_MAX_CHARS + 88}

TopicRowCounts == {0, 6}

\* the database and the process before any request; no service call pending
InitState(ids, owners, targets, calls) ==
    /\ tests \in [ids -> {NewTest(u, t) : u \in owners, t \in targets}]
    /\ questions = [j \in ids |-> <<>>]
    /\ topic_rows \in TopicRowCounts
    /\ sem = SEM_CAPACITY
    /\ tick = 0
    /\ pc = [j \in ids |-> "idle"]
    /\ run = [j \in ids |-> NewRun]
    /\ resp = NoResponse
    /\ req = NoRequest
    /\ calc \in calls

InitWith(ids, owners, targets) == InitState(ids, owners, targets, {NoCall})

Init == InitWith({"t1"}, {"u1"}, 1..MaxTarget)

\* In this specification the workers complete in the order they were submitted.
FirstPending(j) ==
    IF run[j].pending = {} THEN 0
    ELSE CHOOSE w \in run[j].pending : \A v \in run[j].pending : w <= v

\* A step of the run of job j, with the document the run finds among docs and
\* the LLM's answers among answers
RunStepWith(j, docs, answers) ==
    \/ RunStart(j)
    \/ \E doc \in docs : RunGuards(j, doc)
    \/ RunAcquire(j)
    \/ RunTopics(j)
    \/ RunPrepare(j)
    \/ RunGenerate(j)
    \/ \E items \in answers : WorkerDone(j, FirstPending(j), items)
    \/ \E items \in answers : RetryOne(j, items)
    \/ RunFinish(j)
    \/ RunFinally(j)

RunStep(j) == RunStepWith(j, DocCases, WorkerItems)

Next ==
    \/ \E j \in Jobs : RunStep(j)
    \/ \E j \in Jobs, n \in ExceptionLengths : RunRaise(j, n)
    \/ \E j \in Jobs, u \in Users : CancelTest(j, u)
    \/ \E j \in Jobs, u \in Users : GetTest(j, u)
    \/ ClearStuckGeneratingTests
    \/ Tick

Spec == Init /\ [][Next]_vars

\* Each run is a thread of its own that the scheduler keeps running, and every
\* LLM call returns or raises: a run step that stays enabled is taken.
\* The requests that do not change the job (a cancel by another user, a read) are
\* left out of this specification; the cancel and the startup sweep stay.
FairInit == InitWith({"t1"}, {"u1"}, {MaxTarget})

FairNext ==
    \/ \E j \in Jobs : RunStep(j)
    \/ \E j \in Jobs, n \in ExceptionLengths : RunRaise(j, n)
    \/ \E j \in Jobs : CancelTest(j, tests[j].user_id)
    \/ ClearStuckGeneratingTests
    \/ Tick

FairSpec == FairInit /\ [][FairNext]_vars /\ \A j \in {"t1"} : WF_vars(RunStep(j))

----------------------------------------------------------------------------
(* The semaphore: one job more than there are permits, started concurrently *)

SemJobs == 1..(SEM_CAPACITY + 1)

SemDocs == {MissingDoc, LongDoc}

SemInit == InitWith(SemJobs, {"u1"}, {1})

\* Every worker's call returns one MCQ here, so that no retry round follows.
SemNext ==
    \/ \E j \in Jobs : RunStart(j)
    \/ \E j \in Jobs, doc \in SemDocs : RunGuards(j, doc)
    \/ \E j \in Jobs : RunAcquire(j)
    \/ \E j \in Jobs : RunTopics(j)
    \/ \E j \in Jobs : RunPrepare(j)
    \/ \E j \in Jobs : RunGenerate(j)
    \/ \E j \in Jobs : WorkerDone(j, FirstPending(j), <<GoodItem>>)
    \/ \E j \in Jobs : RunFinish(j)
    \/ \E j \in Jobs : RunFinally(j)
    \/ \E j \in Jobs : RunRaise(j, 40)

SemSpec == SemInit /\ [][SemNext]_vars

----------------------------------------------------------------------------
(* The questions table: a run's rows and the manual edits of them *)

ExtraKeyItem == RawMcq(4, DictOptions(ABCD \cup {"F"}), "A", "medium", {})

QAnswers == {<<GoodItem>>, <<ExtraKeyItem>>}

OptionInputs ==
    {StoredDict(ABCD), StoredDict({"A", "B", "C"}),
     StoredList(<<"A", "B", "C", "D", "E">>), StoredList(<<"A", "B", "C">>)}

CorrectInputs == {"A", "E", "F"}

QInit == InitWith({"t1"}, {"u1"}, {MaxTarget})

\* Every worker's call returns one MCQ here, so that no retry round follows;
\* the requests are the owner's.
QNext ==
    \/ \E j \in Jobs : RunStart(j)
    \/ \E j \in Jobs : RunGuards(j, LongDoc)
    \/ \E j \in Jobs : RunAcquire(j)
    \/ \E j \in Jobs : RunTopics(j)
    \/ \E j \in Jobs : RunPrepare(j)
    \/ \E j \in Jobs : RunGenerate(j)
    \/ \E j \in Jobs, items \in QAnswers : WorkerDone(j, FirstPending(j), items)
    \/ \E j \in Jobs : RunFinish(j)
    \/ \E j \in Jobs : RunFinally(j)
    \/ \E j \in Jobs, o \in OptionInputs, c \in CorrectInputs :
          AddQuestion(j, tests[j].user_id, o, c)
    \/ \E j \in Jobs, i \in 1..MaxTarget,
          o \in OptionInputs \cup {NoneOptions}, c \in CorrectInputs \cup {NoneCorrect} :
          PatchQuestion(j, tests[j].user_id, i, o, c)

QSpec == QInit /\ [][QNext]_vars

----------------------------------------------------------------------------
(* A run and an add_question request on the same job, each in its own thread *)

\* Every worker's call returns one MCQ here, so that no retry round follows.
AddNext ==
    \/ \E j \in Jobs : RunStart(j)
    \/ \E j \in Jobs : RunGuards(j, LongDoc)
    \/ \E j \in Jobs : RunAcquire(j)
    \/ \E j \in Jobs : RunTopics(j)
    \/ \E j \in Jobs : RunPrepare(j)
    \/ \E j \in Jobs : RunGenerate(j)
    \/ \E j \in Jobs, items \in QAnswers : WorkerDone(j, FirstPending(j), items)
    \/ \E j \in Jobs : RunFinish(j)
    \/ \E j \in Jobs : RunFinally(j)
    \/ \E j \in Jobs, o \in OptionInputs, c \in CorrectInputs :
          AddQuestionCount(j, tests[j].user_id, o, c)
    \/ AddQuestionCommit

AddSpec == QInit /\ [][AddNext]_vars

----------------------------------------------------------------------------
(* Claims about the job lifecycle *)

LifecycleJobs == {"t1"}

\* C1: under any interleaving of run_generation, cancel_generation and the
\* sweeps, the status of a job never returns to pending once it has left it, and
\* never changes once it is terminal.
C1_StatusMonotone ==
    [][\A j \in LifecycleJobs :
          /\ tests[j].status # "pending" => tests'[j].status # "pending"
          /\ tests[j].status \in Terminal => tests'[j].status = tests[j].status]_vars

C5_CancelledRunDiscarded ==
    [][\A j \in LifecycleJobs :
          /\ pc[j] \notin {"idle", "done"}
          /\ tests[j].status = "failed"
          /\ tests[j].failure_reason = CancelledByUser
          => /\ questions'[j] = questions[j]
             /\ tests'[j].status = "failed"
             /\ tests'[j].failure_reason = CancelledByUser]_vars

\* C6: cancel on a pending or generating job of the caller sets it failed with
\* reason "Cancelled by user" and succeeds; on any other job it changes nothing
\* and is answered with an error.
C6_Cancel ==
    [][\A j \in LifecycleJobs, u \in Users :
          CancelTest(j, u) =>
              IF tests[j].user_id = u /\ tests[j].status \in {"pending", "generating"}
              THEN /\ tests'[j].status = "failed"
                   /\ tests'[j].failure_reason.text = "Cancelled by user"
                   /\ resp'.code = 200
              ELSE /\ tests'[j] = tests[j]
                   /\ resp'.code \in {400, 404}]_vars

C6_Witness ==
    /\ resp = Response("cancel", "t1", "u1", 400)
    /\ tests["t1"].status = "failed"
    /\ tests["t1"].failure_reason = CancelledByUser

\* C8: a sweep, on read or at startup, changes a job if and only if the job is
\* pending or generating and the time since its last update exceeds the job's
\* own timeout budget, and then sets it failed_timeout.
SweptAsClaimed(j) ==
    IF tests[j].status \in {"pending", "generating"}
       /\ Now - tests[j].updated_at >
            (IF tests[j].stale_timeout_sec # 0 THEN tests[j].stale_timeout_sec ELSE 1200)
    THEN tests'[j].status = "failed_timeout"
    ELSE tests'[j] = tests[j]

C8_SweepByOwnBudget ==
    [][/\ ClearStuckGeneratingTests => \A j \in LifecycleJobs : SweptAsClaimed(j)
       /\ \A j \in LifecycleJobs :
             GetTest(j, tests[j].user_id) => SweptAsClaimed(j)]_vars

\* C9: a run whose document or topic guard fails ends failed with that guard's
\* reason, without any LLM call and without touching the job's Question rows.
DocGuardReason(doc) ==
    IF ~doc.exists THEN "Document not found"
    ELSE IF doc.status # "ready"
    THEN "Document is not ready for generation (status must be ready; run extraction first)."
    ELSE IF doc.chars = 0 THEN "Document has no extracted text."
    ELSE IF doc.words < 500
    THEN "Extracted text has fewer than 500 words; need more content for generation."
    ELSE ""

C9_GuardFailure ==
    /\ [](\A j \in LifecycleJobs :
            /\ pc[j] \in {"acquire", "topics", "prepare", "generate", "workers",
                          "retry", "finish", "finally", "done"}
               /\ run[j].doc # NoDoc /\ DocGuardReason(run[j].doc) # "" =>
                    /\ pc[j] \in {"finally", "done"}
                    /\ tests[j].status = "failed"
                    /\ tests[j].failure_reason.text = DocGuardReason(run[j].doc)
                    /\ run[j].llm_calls = 0
            /\ pc[j] \in {"prepare", "generate", "workers", "retry", "finish"} =>
                    topic_rows > 0
            /\ pc[j] = "done" /\ run[j].exit = "guard"
               /\ DocGuardReason(run[j].doc) = "" =>
                    /\ topic_rows = 0
                    /\ tests[j].status = "failed"
                    /\ tests[j].failure_reason.text = "No topic_list rows"
                    /\ run[j].llm_calls = 0)
    /\ [][\A j \in LifecycleJobs :
            run'[j].exit = "guard" => questions'[j] = questions[j]]_vars

C9_Witness ==
    /\ pc["t1"] = "done"
    /\ run["t1"].doc = FewWordsDoc
    /\ tests["t1"].status = "failed"
    /\ tests["t1"].failure_reason.len > 0
    /\ run["t1"].llm_calls = 0

----------------------------------------------------------------------------
(* Claims about the semaphore and the questions table *)

\* The runs between acquire() and release()
Holders == {j \in SemJobs : run[j].sem_acquired /\ pc[j] # "done"}

\* C7: at most 3 runs are between acquiring and releasing the generation
\* semaphore at any moment, and a run at the acquire goes on only when fewer
\* than 3 runs hold a permit.
C7_AtMostThreeRuns ==
    /\ [](Cardinality(Holders) <= 3)
    /\ [][\A j \in SemJobs :
            pc[j] = "acquire" /\ pc'[j] # "acquire" =>
                /\ Cardinality(Holders) < 3
                /\ j \in Holders']_vars

C7_Witness ==
    /\ Cardinality(Holders) = 3
    /\ sem = 0
    /\ \E j \in SemJobs : pc[j] = "acquire"
    /\ \E j \in Holders : pc[j] = "workers"

\* The labels of stored options, in order, when they are A, B, C, D[, E]
HasSequentialLabels(o) ==
    IF o.kind = "dict"
    THEN o.keys \in {ABCD, ABCDE}
    ELSE Len(o.labels) \in {4, 5} /\ \A i \in 1..Len(o.labels) : o.labels[i] = Labels[i]

OptionLabels(o) ==
    IF o.kind = "dict" THEN o.keys ELSE {o.labels[i] : i \in 1..Len(o.labels)}

\* C10: every persisted Question has 4 or 5 options labelled A, B, C, D[, E]
\* in sequence, and its correct_option is one of the labels present.
C10_OptionsWellFormed ==
    \A i \in 1..Len(questions["t1"]) :
        LET q == questions["t1"][i]
        IN  /\ HasSequentialLabels(q.options)
            /\ q.correct_option \in OptionLabels(q.options)

\* C11: the Question rows of a job have the sort_order values 1..k, each
\* once, and k is at most the job's target question count, itself in 1..20.
C11_SortOrderOneToK ==
    LET rows == questions["t1"]
    IN  /\ {rows[i].sort_order : i \in 1..Len(rows)} = 1..Len(rows)
        /\ Len(rows) <= tests["t1"].target_questions
        /\ tests["t1"].target_questions \in 1..20

\* A critique that contains, in any letter case, one of the negative substrings
Flagged(critique) ==
    \E p \in critique :
        Lower(p) \in {"incorrect key", "wrong answer", "incorrect answer",
                      "key is wrong", "explanation is wrong"}

\* C12: no Question row written by run_generation has a flagged critique, and
\* the drop step removes no candidate whose critique is not flagged: the run
\* selects as many questions as there are unflagged candidates, up to the target.
C12_DropExactlyFlagged ==
    \A j \in LifecycleJobs :
        /\ \A i \in 1..Len(questions[j]) :
              questions[j][i].source = "generated" =>
                  ~Flagged(questions[j][i].validation_result)
        /\ pc[j] \in {"finally", "done"} /\ run[j].exit \in {"finished", "no_mcqs"} =>
              run[j].selected =
                  Min(tests[j].target_questions,
                      Cardinality({i \in 1..Len(run[j].all_mcqs) :
                                      ~Flagged(run[j].all_mcqs[i].critique)}))

C12_Witness ==
    /\ pc["t1"] = "done"
    /\ run["t1"].exit = "finished"
    /\ Len(run["t1"].all_mcqs) = 2
    /\ \E i \in 1..2 : run["t1"].all_mcqs[i].critique = {"Incorrect Key"}
    /\ run["t1"].selected = 1
    /\ Len(questions["t1"]) = 1

\* C13: no two Question rows written by run_generation for one job are
\* duplicates of each other under are_duplicate_mcqs.
C13_NoDuplicatesPersisted ==
    LET rows == questions["t1"]
    IN  \A i \in 1..Len(rows), k \in 1..Len(rows) :
            i < k /\ rows[i].source = "generated" /\ rows[k].source = "generated" =>
                ~AreDuplicateMcqs(rows[i], rows[k])

\* C14: a job whose status is partial has a non-empty reason recorded on it.
C14_PartialHasReason ==
    \A j \in LifecycleJobs :
        tests[j].status = "partial" =>
            tests[j].failure_reason.len > 0 \/ tests[j].partial_reason.len > 0

\* ---------------------------------------------------------------------
\* chunking_service.py: chunk_text in fixed and semantic mode.
\* A text for the fixed mode is a sequence of characters; a text for the
\* semantic mode is the sequence of its sentences, each with its length in
\* characters (the text is the sentences joined by one space).

MaxTextLen == 9

MaxSents == 3

DEFAULT_CHUNK_SIZE == 1500

DEFAULT_CHUNK_OVERLAP_PERCENT == 20

SPACY_MAX_CHARS == 1000000

Chars == {"a", " "}

SentenceLens == {250, 1300, 500000}

FixedArgs == {[chunk_size |-> 4, overlap_chars |-> 1], [chunk_size |-> 3, overlap_chars |-> 1]}

IsBlank(text) == \A i \in 1..Len(text) : text[i] = " "

\* str.strip()
Strip(text) ==
    LET RECURSIVE LStrip(_)
        LStrip(t) == IF t # <<>> /\ Head(t) = " " THEN LStrip(Tail(t)) ELSE t
        RECURSIVE RStrip(_)
        RStrip(t) == IF t # <<>> /\ t[Len(t)] = " "
                     THEN RStrip(SubSeq(t, 1, Len(t) - 1))
                     ELSE t
    IN  RStrip(LStrip(text))

\* the while loop of chunk_fixed, from offset start (0-based)
RECURSIVE FixedLoop(_, _, _, _)
FixedLoop(text, start, chunk_size, overlap_chars) ==
    LET end == start + chunk_size
        chunk == SubSeq(text, start + 1, Min(end, Len(text)))
        next == end - overlap_chars
    IN  IF next >= Len(text)
        THEN <<chunk>>
        ELSE <<chunk>> \o FixedLoop(text, next, chunk_size, overlap_chars)

ChunkFixed(text, chunk_size, overlap_chars) ==
    IF IsBlank(text) THEN <<>>
    ELSE LET t == Strip(text)
         IN  IF Len(t) <= chunk_size THEN <<t>>
             ELSE FixedLoop(t, 0, chunk_size, overlap_chars)

\* start offset (0-based) of sentence i in the joined text
RECURSIVE SentStart(_, _)
SentStart(sents, i) ==
    IF i = 1 THEN 0 ELSE SentStart(sents, i - 1) + sents[i - 1].len + 1

\* _get_sentences_spacy: spaCy reads text[:1_000_000]; when spaCy cannot be
\* loaded the regex fallback splits the whole text
GetSentencesSpacy(sents, spacy) ==
    IF ~spacy THEN sents
    ELSE LET kept == {i \in 1..Len(sents) : SentStart(sents, i) < SPACY_MAX_CHARS}
         IN  [i \in 1..Cardinality(kept) |->
                 [id |-> sents[i].id,
                  len |-> Min(sents[i].len, SPACY_MAX_CHARS - SentStart(sents, i))]]

RECURSIVE JoinedLen(_)
JoinedLen(current) ==
    IF current = <<>> THEN 0 ELSE Head(current).len + 1 + JoinedLen(Tail(current))

\* the reversed(current) loop: trailing sentences that fit in overlap_chars
RECURSIVE KeepOverlap(_, _, _)
KeepOverlap(current, overlap_len, overlap_chars) ==
    IF current = <<>> THEN <<>>
    ELSE LET s == current[Len(current)]
         IN  IF overlap_len + s.len + 1 <= overlap_chars
             THEN KeepOverlap(SubSeq(current, 1, Len(current) - 1),
                              overlap_len + s.len + 1, overlap_chars) \o <<s>>
             ELSE <<>>

RECURSIVE SemanticLoop(_, _, _, _)
SemanticLoop(rest, current, chunk_size, overlap_chars) ==
    IF rest = <<>>
    THEN IF current = <<>> THEN <<>> ELSE <<current>>
    ELSE LET sent == Head(rest)
             sent_len == sent.len + 1
         IN  IF JoinedLen(current) + sent_len > chunk_size /\ current # <<>>
             THEN <<current>> \o
                  SemanticLoop(Tail(rest),
                               KeepOverlap(current, 0, overlap_chars) \o <<sent>>,
                               chunk_size, overlap_chars)
             ELSE SemanticLoop(Tail(rest), current \o <<sent>>, chunk_size, overlap_chars)

\* chunk_semantic; a text without sentences is the empty text here
ChunkSemantic(sents, chunk_size, overlap_percent, spacy) ==
    IF sents = <<>> THEN <<>>
    ELSE SemanticLoop(GetSentencesSpacy(sents, spacy), <<>>, chunk_size,
                      (chunk_size * overlap_percent) \div 100)

FixedTexts == UNION {[1..n -> Chars] : n \in 0..MaxTextLen}

SemanticTexts ==
    UNION {{[i \in 1..n |-> [id |-> i, len |-> f[i]]] : f \in [1..n -> SentenceLens]}
           : n \in 0..MaxSents}

ChunkCalls ==
    {[fn |-> "chunk_text", mode |-> "fixed", text |-> t, sents |-> <<>>,
      chunk_size |-> a.chunk_size, overlap_chars |-> a.overlap_chars,
      done |-> FALSE, chunks |-> <<>>, sent_chunks |-> <<>>]
        : t \in FixedTexts, a \in FixedArgs}
    \cup
    {[fn |-> "chunk_text", mode |-> "semantic", text |-> <<>>, sents |-> t,
      chunk_size |-> DEFAULT_CHUNK_SIZE, overlap_chars |-> 0,
      done |-> FALSE, chunks |-> <<>>, sent_chunks |-> <<>>]
        : t \in SemanticTexts}

ChunkInit == InitState({"t1"}, {"u1"}, {1}, ChunkCalls)

\* chunk_text(text, mode=...) on the pending call
ChunkText(spacy) ==
    /\ calc.fn = "chunk_text"
    /\ ~calc.done
    /\ calc' = [calc EXCEPT
                  !.done = TRUE,
                  !.chunks = IF calc.mode = "fixed"
                             THEN ChunkFixed(calc.text, calc.chunk_size, calc.overlap_chars)
                             ELSE <<>>,
                  !.sent_chunks = IF calc.mode = "semantic"
                                  THEN ChunkSemantic(calc.sents, calc.chunk_size,
                                                     DEFAULT_CHUNK_OVERLAP_PERCENT, spacy)
                                  ELSE <<>>]
    /\ UNCHANGED <<tests, questions, topic_rows, sem, tick, pc, run, resp, req>>

ChunkNext == \E spacy \in BOOLEAN : ChunkText(spacy)

ChunkSpec == ChunkInit /\ [][ChunkNext]_vars

\* fixed mode: the first chunk followed by every later chunk without its
\* leading overlap_chars characters
RECURSIVE RemoveFixedOverlap(_, _)
RemoveFixedOverlap(chunks, overlap_chars) ==
    IF chunks = <<>> THEN <<>>
    ELSE LET c == chunks[Len(chunks)]
         IN  IF Len(chunks) = 1 THEN c
             ELSE RemoveFixedOverlap(SubSeq(chunks, 1, Len(chunks) - 1), overlap_chars)
                  \o SubSeq(c, overlap_chars + 1, Len(c))

RECURSIVE Flatten(_)
Flatten(chunks) == IF chunks = <<>> THEN <<>> ELSE Head(chunks) \o Flatten(Tail(chunks))

\* semantic mode: every sentence of the text is in some chunk, whole, and a
\* sentence appears only after all the sentences before it
SemanticCovers(text, chunks) ==
    LET flat == Flatten(chunks)
    IN  /\ \A i \in 1..Len(text) : \E k \in 1..Len(flat) : flat[k] = text[i]
        /\ \A l \in 1..Len(flat) : \A i \in 1..(flat[l].id - 1) :
              \E k \in 1..(l - 1) : flat[k].id = i

ChunkInputBlank ==
    IF calc.mode = "fixed" THEN IsBlank(calc.text) ELSE calc.sents = <<>>

\* C15: chunk_text, fixed and semantic: a blank text gives no chunk; for any
\* other text no chunk is blank and the chunks, without the designed overlap,
\* give back the whole text in order.
C15_ChunksCoverText ==
    (calc.fn = "chunk_text" /\ calc.done) =>
        IF ChunkInputBlank THEN calc.chunks = <<>> /\ calc.sent_chunks = <<>>
        ELSE IF calc.mode = "fixed"
        THEN /\ calc.chunks # <<>>
             /\ \A k \in 1..Len(calc.chunks) : ~IsBlank(calc.chunks[k])
             /\ RemoveFixedOverlap(calc.chunks, calc.overlap_chars) = Strip(calc.text)
        ELSE /\ calc.sent_chunks # <<>>
             /\ \A k \in 1..Len(calc.sent_chunks) : calc.sent_chunks[k] # <<>>
             /\ SemanticCovers(calc.sents, calc.sent_chunks)

\* ---------------------------------------------------------------------
\* dedupe.py: are_duplicate_mcqs on a pair of MCQs, in both argument orders.

StemWords == {"Which", "which", "article", "abolished", "india"}

OptionWords == {"Article", "article"}

DedupeMcqs ==
    {[question |-> q, option_words |-> o, correct_option |-> c]
        : q \in SUBSET StemWords, o \in SUBSET OptionWords, c \in {"A", "B"}}

DedupeCalls ==
    {[fn |-> "are_duplicate_mcqs", m1 |-> a, m2 |-> b, done |-> FALSE,
      forward |-> FALSE, backward |-> FALSE] : a \in DedupeMcqs, b \in DedupeMcqs}

DedupeInit == InitState({"t1"}, {"u1"}, {1}, DedupeCalls)

\* are_duplicate_mcqs(m1, m2) and are_duplicate_mcqs(m2, m1)
CompareBothWays ==
    /\ calc.fn = "are_duplicate_mcqs"
    /\ ~calc.done
    /\ calc' = [calc EXCEPT !.done = TRUE,
                            !.forward = AreDuplicateMcqs(calc.m1, calc.m2),
                            !.backward = AreDuplicateMcqs(calc.m2, calc.m1)]
    /\ UNCHANGED <<tests, questions, topic_rows, sem, tick, pc, run, resp, req>>

DedupeNext == CompareBothWays

DedupeSpec == DedupeInit /\ [][DedupeNext]_vars

\* C16: are_duplicate_mcqs gives the same answer for (m1, m2) and (m2, m1).
C16_DuplicateSymmetric ==
    (calc.fn = "are_duplicate_mcqs" /\ calc.done) => calc.forward = calc.backward

\* a pair of different sizes found duplicate by stem overlap alone
C16_Witness ==
    /\ calc.fn = "are_duplicate_mcqs"
    /\ calc.done
    /\ calc.forward
    /\ calc.backward
    /\ Cardinality(Tokenize(calc.m1.question)) < Cardinality(Tokenize(calc.m2.question))
    /\ ~JaccardAtLeast(Tokenize(calc.m1.question), Tokenize(calc.m2.question), JACCARD_THRESHOLD)
    /\ calc.m1.correct_option # calc.m2.correct_option

\* ---------------------------------------------------------------------
\* Two runs over the same document, the same target and the same LLM answers:
\* worker w's call returns the same MCQ in both; only the order in which the
\* workers complete (as_completed) is free.

OrderJobs == {"t1", "t2"}

\* what the call of worker w returns, whenever it completes
WorkerAnswer(w) == <<RawMcq(w + 1, DictOptions(ABCD), "A", "medium", {})>>

OrderInit == InitWith(OrderJobs, {"u1"}, {MaxTarget})

OrderNext ==
    \/ \E j \in Jobs : RunStart(j)
    \/ \E j \in Jobs : RunGuards(j, LongDoc)
    \/ \E j \in Jobs : RunAcquire(j)
    \/ \E j \in Jobs : RunTopics(j)
    \/ \E j \in Jobs : RunPrepare(j)
    \/ \E j \in Jobs : RunGenerate(j)
    \/ \E j \in Jobs, w \in Workers : WorkerDone(j, w, WorkerAnswer(w))
    \/ \E j \in Jobs : RunFinish(j)
    \/ \E j \in Jobs : RunFinally(j)

OrderSpec == OrderInit /\ [][OrderNext]_vars

\* C17: the selected list does not depend on the order in which the workers
\* complete: two runs with the same inputs persist the same questions.
C17_SelectionDeterministic ==
    (\A j \in OrderJobs : pc[j] = "done" /\ run[j].exit = "finished") =>
        questions["t1"] = questions["t2"]

\* ---------------------------------------------------------------------
\* api/tests.py: POST /tests/generate, the request that creates a job.

MaxGenJobs == 2

GenIds == <<"t1", "t2", "t3">>

\* the documents table: all of user u1
GenDocuments ==
    [d1 |-> LongDoc, d2 |-> ShortDoc, d3 |-> ProcessingDoc, d4 |-> EmptyDoc,
     d5 |-> Doc(TRUE, "rejected", 0, 0, 0), d6 |-> MissingDoc]

GenCounts == {0, 1, 8, 9, 20, 21}

\* TestGenerateRequest.num_questions_range
NumQuestionsRange(v) == ~(v < 1 \/ v > 20)

GenInit == InitWith({}, {"u1"}, {1})

\* start_generation(data, current_user): the status code, the detail and the
\* row it creates
StartGeneration(u, d, nq) ==
    /\ Cardinality(Jobs) < MaxGenJobs
    /\ LET id == GenIds[Cardinality(Jobs) + 1]
           doc == GenDocuments[d]
           reject(code, detail) ==
               /\ resp' = Response("generate", "none", u, code)
               /\ calc' = [fn |-> "start_generation", num_questions |-> nq,
                           detail |-> detail, created |-> "none"]
               /\ UNCHANGED <<tests, questions, pc, run>>
       IN  IF ~NumQuestionsRange(nq)
           THEN reject(422, "num_questions must be between 1 and 20")
           ELSE IF nq < 1 \/ nq > 20
           THEN reject(400, "target_questions must be between 1 and 20")
           ELSE IF ~doc.exists \/ u # "u1"
           THEN reject(404, "Document not found")
           ELSE IF doc.status = "rejected"
           THEN reject(400, "Document was rejected")
           ELSE IF doc.status # "ready"
           THEN reject(400, "Document is not ready for generation")
           ELSE IF doc.chars = 0
           THEN reject(400, "Document has no extracted text")
           ELSE IF \E j \in Jobs : /\ tests[j].document_id = d
                                   /\ tests[j].user_id = u
                                   /\ tests[j].status \in {"pending", "generating"}
           THEN reject(409, "A generation is already in progress for this document")
           ELSE /\ tests' = tests @@ (id :> [NewTest(u, Max(1, Min(20, nq)))
                                               EXCEPT !.document_id = d])
                /\ questions' = questions @@ (id :> <<>>)
                /\ pc' = pc @@ (id :> "idle")
                /\ run' = run @@ (id :> NewRun)
                /\ resp' = Response("generate", id, u, 202)
                /\ calc' = [fn |-> "start_generation", num_questions |-> nq,
                            detail |-> "", created |-> id]
    /\ UNCHANGED <<topic_rows, sem, tick, req>>

GenNext ==
    \E u \in Users, d \in DOMAIN GenDocuments, nq \in GenCounts : StartGeneration(u, d, nq)

GenSpec == GenInit /\ [][GenNext]_vars

\* C18: POST /tests/generate takes num_questions only up to 8: with 9 the answer
\* is 422 "Maximum 8 questions" and no job is created; with 8 a request that is
\* accepted creates a pending job with target 8.
C18_MaximumEightQuestions ==
    calc.fn = "start_generation" =>
        /\ calc.num_questions > 8 =>
              /\ resp.code = 422
              /\ calc.detail = "Maximum 8 questions"
              /\ calc.created = "none"
        /\ (calc.num_questions = 8 /\ resp.code = 202) =>
              /\ calc.created \in Jobs
              /\ tests[calc.created].status = "pending"
              /\ tests[calc.created].target_questions = 8

\* ---------------------------------------------------------------------
\* tasks.run_extraction: the background task after an upload, on the document
\* row it finds and the PDF file on disk.

MIN_VALID_TEXT_LEN == 500

\* a PDF on disk: readable by PyMuPDF or not, its pages, the length of its
\* cleaned text
Pdf(found, readable, pages, text_len) ==
    [found |-> found, readable |-> readable, pages |-> pages, text_len |-> text_len]

PdfCases ==
    {Pdf(FALSE, FALSE, 0, 0), Pdf(TRUE, FALSE, 0, 0), Pdf(TRUE, TRUE, 0, 0),
     Pdf(TRUE, TRUE, 1, 0), Pdf(TRUE, TRUE, 1, MIN_VALID_TEXT_LEN - 1),
     Pdf(TRUE, TRUE, 2, MIN_VALID_TEXT_LEN)}

ExtractionResult(text_len, is_valid) == [text_len |-> text_len, is_valid |-> is_valid]

NoResult == ExtractionResult(0 - 1, FALSE)

\* pdf_extraction_service.extract_hybrid; the returned text is stripped
ExtractHybrid(pdf) ==
    IF ~pdf.found \/ ~pdf.readable \/ pdf.pages = 0
    THEN ExtractionResult(0, FALSE)
    ELSE ExtractionResult(pdf.text_len,
                          pdf.text_len > 0 /\ ~(pdf.text_len < MIN_VALID_TEXT_LEN))

\* a status that looks at the text only
ResultStatusByText(result) ==
    IF result.text_len > 0 THEN "ready" ELSE "extraction_failed"

\* "ready" if (result.is_valid and (result.text or "").strip()) else "extraction_failed"
ResultStatus(result) ==
    IF result.is_valid /\ result.text_len > 0 THEN "ready" ELSE "extraction_failed"

DocumentRows ==
    {[exists |-> e, source_type |-> s, has_path |-> p, status |-> "processing",
      text_len |-> 0] : e \in BOOLEAN, s \in {"pdf", "text"}, p \in BOOLEAN}

ExtractCalls ==
    {[fn |-> "run_extraction", doc |-> d, pdf |-> f, step |-> "start",
      result |-> NoResult, propagated |-> FALSE] : d \in DocumentRows, f \in PdfCases}

ExtractInit == InitState({"t1"}, {"u1"}, {1}, ExtractCalls)

\* Lines 77-97: the query, the two early returns and the missing file
ExtractStart ==
    /\ calc.fn = "run_extraction"
    /\ calc.step = "start"
    /\ calc' =
         IF ~calc.doc.exists \/ calc.doc.source_type # "pdf" \/ ~calc.doc.has_path
         THEN [calc EXCEPT !.step = "returned"]
         ELSE IF ~calc.pdf.found
         THEN [calc EXCEPT !.step = "returned",
                           !.doc.status = "extraction_failed",
                           !.doc.text_len = 0]
         ELSE [calc EXCEPT !.step = "extracting"]
    /\ UNCHANGED <<tests, questions, topic_rows, sem, tick, pc, run, resp, req>>

\* Lines 98-105: extract_hybrid returns and the row is committed
ExtractDone ==
    /\ calc.fn = "run_extraction"
    /\ calc.step = "extracting"
    /\ LET result == ExtractHybrid(calc.pdf)
       IN  calc' = [calc EXCEPT !.step = "returned",
                                !.result = result,
                                !.doc.text_len = result.text_len,
                                !.doc.status = ResultStatus(result)]
    /\ UNCHANGED <<tests, questions, topic_rows, sem, tick, pc, run, resp, req>>

\* Lines 106-119: extract_hybrid raises; the handler marks the row and
\* swallows the exception. The handler's queries are taken to succeed.
ExtractRaise ==
    /\ calc.fn = "run_extraction"
    /\ calc.step = "extracting"
    /\ calc' = [calc EXCEPT !.step = "returned",
                            !.doc.status = "extraction_failed",
                            !.doc.text_len = 0]
    /\ UNCHANGED <<tests, questions, topic_rows, sem, tick, pc, run, resp, req>>

ExtractNext == ExtractStart \/ ExtractDone \/ ExtractRaise

ExtractSpec == ExtractInit /\ [][ExtractNext]_vars

NoCalls == [fn |-> "generate_mcqs_with_rag", call_start |-> 0, overrun |-> FALSE]

HbAnswers == {<<>>, <<GoodItem>>}

HbInit == InitState({"t1"}, {"u1"}, {MaxTarget}, {NoCalls})

\* the LLM call of job j now in flight has taken longer than the job's budget
CallOverran(j) == Now - calc.call_start > run[j].timeout_sec

\* the parallel candidate calls start when the executor submits them
HbRunGenerate(j) ==
    /\ RunGenerateCore(j)
    /\ calc' = [calc EXCEPT !.call_start = Now]

\* a candidate call returns; after the last one the first sequential call starts
HbWorkerDone(j, w, items) ==
    /\ WorkerDoneCore(j, w, items)
    /\ calc' = [calc EXCEPT
                  !.overrun = @ \/ (/\ GroupSize(run[j].doc.num_chunks, PARALLEL_CANDIDATES, w) > 0
                                    /\ CallOverran(j)),
                  !.call_start = IF run[j].pending = {w} THEN Now ELSE @]

\* a retry call returns and the next sequential call starts
HbRetryOne(j, items) ==
    /\ RetryOneCore(j, items)
    /\ calc' = [calc EXCEPT
                  !.overrun = @ \/ (/\ GroupSize(run[j].doc.num_chunks, PARALLEL_CANDIDATES,
                                                 Head(run[j].failed)) > 0
                                    /\ CallOverran(j)),
                  !.call_start = Now]

HbNext ==
    \/ \E j \in Jobs : RunStart(j)
    \/ \E j \in Jobs : RunGuards(j, LongDoc)
    \/ \E j \in Jobs : RunAcquire(j)
    \/ \E j \in Jobs : RunTopics(j)
    \/ \E j \in Jobs : RunPrepare(j)
    \/ \E j \in Jobs : HbRunGenerate(j)
    \/ \E j \in Jobs, items \in HbAnswers : HbWorkerDone(j, FirstPending(j), items)
    \/ \E j \in Jobs, items \in HbAnswers : HbRetryOne(j, items)
    \/ \E j \in Jobs : RunFinish(j)
    \/ \E j \in Jobs : RunFinally(j)
    \/ \E j \in Jobs : GetTest(j, tests[j].user_id)
    \/ ClearStuckGeneratingTests
    \/ Tick

HbSpec == HbInit /\ [][HbNext]_vars

\* C20: a job whose LLM calls each complete within its stale budget is never
\* marked failed_timeout by a sweep while its candidates are being generated.
C20_ProgressingNeverStale ==
    [][\A j \in LifecycleJobs :
          (/\ pc[j] \in {"workers", "retry"}
           /\ tests[j].status = "generating"
           /\ ~calc.overrun
           /\ ~CallOverran(j)) => tests'[j].status # "failed_timeout"]_vars

\* ---------------------------------------------------------------------
\* Claims about generate_mcqs_with_rag

\* the text run_generation passes is non-empty and under the single-call ceiling
FastPathText(j) ==
    run[j].doc.chars > 0 /\ run[j].doc.chars < MAX_SINGLE_CALL_CHARS

\* C21: when the full text is non-empty and shorter than the single-call
\* ceiling, generate_mcqs_with_rag issues exactly one LLM call and goes on to
\* the selection with what that call returned, without any worker.
C21_FastPathOneCall ==
    [][\A j \in LifecycleJobs :
          (RunGenerate(j) /\ FastPathText(j)) =>
              /\ run'[j].llm_calls = run[j].llm_calls + 1
              /\ run'[j].pending = {}
              /\ pc'[j] = "finish"]_vars

\* ---------------------------------------------------------------------
\* The generation attempts of one run on the chunked path. Beside the program's
\* state, calc counts the calls of _one_candidate per worker and provider and
\* keeps what the initial round and the primary provider gave; claude_fallback
\* is the setting CLAUDE_FALLBACK.

NoAttempts(fb) ==
    [fn |-> "generate_mcqs_with_rag", claude_fallback |-> fb,
     primary |-> [w \in Workers |-> 0], fallback |-> [w \in Workers |-> 0],
     first |-> [w \in Workers |-> 0 - 1], round_total |-> 0 - 1,
     fallback_rounds |-> 0, primary_total |-> 0 - 1]

AttemptAnswers == {<<>>, <<GoodItem>>}

AttemptInit ==
    InitState({"t1"}, {"u1"}, {MaxTarget}, {NoAttempts(fb) : fb \in BOOLEAN})

\* worker w's call in the initial parallel round returns
AttemptWorkerDone(j, w, items) ==
    /\ WorkerDoneCore(j, w, items)
    /\ calc' = [calc EXCEPT
                  !.primary[w] = @ + 1,
                  !.first[w] = Len(run'[j].all_mcqs) - Len(run[j].all_mcqs),
                  !.round_total = IF run[j].pending = {w}
                                  THEN Len(run'[j].all_mcqs) ELSE @]

\* the retry of the next failed worker returns
AttemptRetryOne(j, items) ==
    /\ RetryOneCore(j, items)
    /\ calc' = [calc EXCEPT !.primary[Head(run[j].failed)] = @ + 1]

\* Lines 301-321: all_mcqs is empty and CLAUDE_FALLBACK is set
FallbackWanted(j) ==
    run[j].all_mcqs = <<>> /\ calc.claude_fallback /\ calc.fallback_rounds = 0

RECURSIVE GatherFallback(_, _)
GatherFallback(answers, ws) ==
    IF ws = {} THEN <<>>
    ELSE LET w == CHOOSE v \in ws : \A u \in ws : v <= u
         IN  ParseMcqs(answers[w]) \o GatherFallback(answers, ws \ {w})

\* the fallback round: every worker is run once against the fallback provider
FallbackRound(j, answers) ==
    /\ pc[j] = "finish"
    /\ FallbackWanted(j)
    /\ LET called == {w \in Workers :
                         GroupSize(run[j].doc.num_chunks, PARALLEL_CANDIDATES, w) > 0}
       IN  /\ run' = [run EXCEPT ![j].all_mcqs = GatherFallback(answers, called),
                                 ![j].llm_calls = @ + Cardinality(called)]
           /\ calc' = [calc EXCEPT
                         !.fallback = [w \in Workers |-> @[w] + 1],
                         !.fallback_rounds = @ + 1,
                         !.primary_total = Len(run[j].all_mcqs)]
    /\ UNCHANGED <<tests, questions, topic_rows, sem, tick, pc, resp, req>>

\* the validation and the selection follow the fallback round, if there is one
AttemptRunFinish(j) == ~FallbackWanted(j) /\ RunFinish(j)

AttemptNext ==
    \/ \E j \in Jobs : RunStart(j)
    \/ \E j \in Jobs : RunGuards(j, LongDoc)
    \/ \E j \in Jobs : RunAcquire(j)
    \/ \E j \in Jobs : RunTopics(j)
    \/ \E j \in Jobs : RunPrepare(j)
    \/ \E j \in Jobs : RunGenerate(j)
    \/ \E j \in Jobs, items \in AttemptAnswers :
          AttemptWorkerDone(j, FirstPending(j), items)
    \/ \E j \in Jobs, items \in AttemptAnswers : AttemptRetryOne(j, items)
    \/ \E j \in Jobs, answers \in [Workers -> AttemptAnswers] : FallbackRound(j, answers)
    \/ \E j \in Jobs : AttemptRunFinish(j)
    \/ \E j \in Jobs : RunFinally(j)

AttemptSpec == AttemptInit /\ [][AttemptNext]_vars

\* C22: on the chunked path a worker is run again on the primary provider only
\* if it gave nothing in the initial round and the round's total was below
\* target, and then once; the fallback round runs at most once, only when the
\* primary provider gave nothing at all and the fallback is configured. So a
\* worker is run at most twice on the primary provider and once on the fallback.
C22_AttemptsBounded ==
    calc.fn = "generate_mcqs_with_rag" =>
        /\ \A w \in Workers :
              /\ calc.primary[w] <= 2
              /\ calc.fallback[w] <= 1
              /\ calc.primary[w] = 2 =>
                    /\ calc.first[w] = 0
                    /\ calc.round_total < TargetN(tests["t1"])
        /\ calc.fallback_rounds <= 1
        /\ calc.fallback_rounds = 1 =>
              /\ calc.claude_fallback
              /\ calc.primary_total = 0

\* every worker retried once, then the fallback round, then the run ends
C22_Witness ==
    /\ calc.fn = "generate_mcqs_with_rag"
    /\ calc.fallback_rounds = 1
    /\ \A w \in Workers : calc.primary[w] = 2
    /\ pc["t1"] = "done"

\* C23, as claimed: a worker that raises or yields nothing contributes the
\* empty list, and the run ends failed for lack of candidates ("No valid MCQs
\* after filtering") only when the workers gave no candidate in total.
C23_FailedOnlyWhenTotalZero ==
    \A j \in LifecycleJobs :
        run[j].exit = "no_mcqs" => run[j].all_mcqs = <<>>

\* C23, amended: a worker that raises or yields nothing contributes the empty
\* list; the candidates of the others are collected and used, and the run ends
\* failed for lack of candidates exactly when no collected candidate is left by
\* the critique filter (in particular when the workers gave none).
C23_FailedOnlyWithoutValid ==
    \A j \in LifecycleJobs :
        run[j].exit \in {"no_mcqs", "finished"} =>
            /\ run[j].exit = "no_mcqs" <=> DropBadCritique(run[j].all_mcqs) = <<>>
            /\ run[j].selected =
                  Min(TargetN(tests[j]), Len(DropBadCritique(run[j].all_mcqs)))

\* some generation call gave nothing, and the run still finished with the
\* candidate of another worker
C23_Witness ==
    /\ run["t1"].exit = "finished"
    /\ run["t1"].doc = LongDoc
    /\ run["t1"].llm_calls - Len(run["t1"].all_mcqs) > Len(run["t1"].all_mcqs)
    /\ run["t1"].selected = 1
    /\ tests["t1"].target_questions = 2

\* ---------------------------------------------------------------------
\* llm/gemini_impl.py and llm/claude_impl.py: one generate_mcqs call and the
\* requests it sends. A response is a success with a parsable body, a success
\* whose body gives no MCQ, or an exception known by the words of its message.

MAX_ATTEMPTS == 3

Parsed == [ok |-> TRUE, mcqs |-> 1, words |-> {}]
Unparsable == [ok |-> TRUE, mcqs |-> 0, words |-> {}]
Failure(words) == [ok |-> FALSE, mcqs |-> 0, words |-> words]

RateLimited == Failure({"429", "too", "many", "requests"})
InternalError == Failure({"500", "internal", "server", "error"})
Unavailable == Failure({"503", "service", "unavailable"})
Overloaded == Failure({"529", "overloaded"})
BadRequest == Failure({"400", "bad", "request"})

Responses == {Parsed, Unparsable, RateLimited, InternalError, Unavailable, Overloaded, BadRequest}

\* gemini_impl._is_retryable
GeminiIsRetryable(exc) ==
    \/ exc.words \cap {"429", "rate limit", "rate_limit"} # {}
    \/ exc.words \cap {"500", "502", "503", "resource exhausted"} # {}

\* claude_impl._is_rate_limit
ClaudeIsRateLimit(exc) ==
    exc.words \cap {"429", "rate limit", "rate_limit"} # {}

IsRetried(provider, exc) ==
    IF provider = "gemini" THEN GeminiIsRetryable(exc) ELSE ClaudeIsRateLimit(exc)

RetryCalls ==
    {[fn |-> "generate_mcqs", provider |-> p, long_text |-> l, responses |-> <<>>,
      state |-> "create", mcqs |-> 0] : p \in {"gemini", "claude"}, l \in BOOLEAN}

RetryInit == InitState({"t1"}, {"u1"}, {1}, RetryCalls)

\* _create() under @retry(stop_after_attempt(3), reraise=True): one request
\* and what tenacity does with its outcome
CreateAttempt(r) ==
    /\ calc.fn = "generate_mcqs"
    /\ calc.state = "create"
    /\ LET sent == Append(calc.responses, r)
       IN  calc' = [calc EXCEPT
                      !.responses = sent,
                      !.mcqs = r.mcqs,
                      !.state =
                         IF r.ok
                         THEN IF r.mcqs = 0 /\ calc.provider = "gemini" /\ calc.long_text
                              THEN "shorter" ELSE "returned"
                         ELSE IF IsRetried(calc.provider, r) /\ Len(sent) < MAX_ATTEMPTS
                              THEN "create" ELSE "raised"]
    /\ UNCHANGED <<tests, questions, topic_rows, sem, tick, pc, run, resp, req>>

\* gemini_impl lines 296-319: no MCQ parsed and more than 40000 characters of
\* context: one more request with the first 40000; its failure is swallowed
ShorterContextRequest(r) ==
    /\ calc.fn = "generate_mcqs"
    /\ calc.state = "shorter"
    /\ calc' = [calc EXCEPT !.responses = Append(@, r),
                            !.mcqs = r.mcqs,
                            !.state = "returned"]
    /\ UNCHANGED <<tests, questions, topic_rows, sem, tick, pc, run, resp, req>>

RetryNext ==
    \/ \E r \in Responses : CreateAttempt(r)
    \/ \E r \in Responses : ShorterContextRequest(r)

RetrySpec == RetryInit /\ [][RetryNext]_vars

\* a rate-limit (429) or server-error (5xx, "overloaded") response
RateLimitOrServerError(r) ==
    ~r.ok /\ r.words \cap {"429", "500", "502", "503", "529", "overloaded"} # {}

\* C24: a generation call of either provider makes at most 3 attempts; a
\* further attempt is made exactly when the previous one failed with a
\* rate-limit or server-error response and the bound is not reached; any other
\* failure is raised at once and a success ends the call.
C24_BoundedRetries ==
    calc.fn = "generate_mcqs" =>
        LET sent == calc.responses
        IN  /\ Len(sent) <= MAX_ATTEMPTS
            /\ \A i \in 1..(Len(sent) - 1) : RateLimitOrServerError(sent[i])
            /\ calc.state \in {"returned", "raised"} =>
                  \/ sent[Len(sent)].ok
                  \/ ~RateLimitOrServerError(sent[Len(sent)])
                  \/ Len(sent) = MAX_ATTEMPTS

\* ---------------------------------------------------------------------
\* services/ranking.py: rank_mcqs over a candidate list and the critiques
\* recorded per index.

MaxRanked == 3

INCORRECT_KEY_PHRASES ==
    {"incorrect key", "wrong answer", "key is wrong", "correct answer is not",
     "key should be"}

\* any(p in (critique or "").lower() for p in INCORRECT_KEY_PHRASES)
HasIncorrectKeyFlag(critique) ==
    \E p \in critique : Lower(p) \in INCORRECT_KEY_PHRASES

\* score(i, m), with the bonus of 0.5 counted in halves:
\* (-bad_key, -medium_bonus, i)
Score(i, m, validation_results, prefer_medium) ==
    <<IF HasIncorrectKeyFlag(validation_results[i]) THEN -2 ELSE 0,
      IF prefer_medium /\ Lower(m.difficulty) = "medium" THEN -1 ELSE 0,
      i>>

\* tuple comparison of two scores
ScoreLess(a, b) ==
    \/ a[1] < b[1]
    \/ a[1] = b[1] /\ a[2] < b[2]
    \/ a[1] = b[1] /\ a[2] = b[2] /\ a[3] < b[3]

\* indexed.sort(key=score): ascending; the index makes every score distinct,
\* so an item's place is one more than the number of smaller scores
RankOrder(mcqs, validation_results, prefer_medium) ==
    LET sc(i) == Score(i - 1, mcqs[i], validation_results, prefer_medium)
        place(i) == 1 + Cardinality({k \in 1..Len(mcqs) : ScoreLess(sc(k), sc(i))})
    IN  [p \in 1..Len(mcqs) |-> CHOOSE i \in 1..Len(mcqs) : place(i) = p]

RankCandidates ==
    [difficulty : {"medium", "MEDIUM", "easy"}]

RankCritiques == {{"correct"}, {"Incorrect Key"}}

RankInputs(n) ==
    {[fn |-> "rank_mcqs", mcqs |-> m, validation_results |-> v,
      prefer_medium |-> pm, done |-> FALSE, order |-> <<>>] :
        m \in [1..n -> RankCandidates], v \in [0..(n - 1) -> RankCritiques],
        pm \in BOOLEAN}

RankCalls == UNION {RankInputs(n) : n \in 1..MaxRanked}

RankInit == InitState({"t1"}, {"u1"}, {1}, RankCalls)

\* rank_mcqs(mcqs, validation_results, prefer_medium); order holds the
\* original positions of the returned list
RankMcqs ==
    /\ calc.fn = "rank_mcqs"
    /\ ~calc.done
    /\ calc' = [calc EXCEPT
                  !.done = TRUE,
                  !.order = RankOrder(calc.mcqs, calc.validation_results,
                                      calc.prefer_medium)]
    /\ UNCHANGED <<tests, questions, topic_rows, sem, tick, pc, run, resp, req>>

RankNext == RankMcqs

RankSpec == RankInit /\ [][RankNext]_vars

RankedFlagged(i) == HasIncorrectKeyFlag(calc.validation_results[i - 1])
RankedMedium(i) == Lower(calc.mcqs[i].difficulty) = "medium"

\* C25: in the ranked list every unflagged candidate stands before every
\* flagged one; with equal flags medium candidates stand before the others;
\* candidates equal on both keys keep their original relative order.
C25_RankingOrder ==
    (calc.fn = "rank_mcqs" /\ calc.done) =>
        \A p, q \in 1..Len(calc.order) :
            LET a == calc.order[p]
                b == calc.order[q]
            IN  p < q =>
                  /\ ~(RankedFlagged(a) /\ ~RankedFlagged(b))
                  /\ (RankedFlagged(a) = RankedFlagged(b) /\ calc.prefer_medium)
                        => ~(~RankedMedium(a) /\ RankedMedium(b))
                  /\ (RankedFlagged(a) = RankedFlagged(b)
                      /\ (calc.prefer_medium => RankedMedium(a) = RankedMedium(b)))
                        => a < b

\* ---------------------------------------------------------------------
\* mcq_generation_service._partition_chunks as a function of the chunk list
\* and the number of groups.

MaxChunkList == 4
MaxGroups == 5

RECURSIVE GroupStart(_, _, _)
\* start, after the groups before group i (0-based) took their chunks
GroupStart(size, n, i) ==
    IF i = 0 THEN 0 ELSE GroupStart(size, n, i - 1) + GroupSize(size, n, i - 1)

\* _partition_chunks(chunk_list, n)
PartitionChunks(chunk_list, n) ==
    IF n <= 0 THEN <<>>
    ELSE [g \in 1..n |->
            LET start == GroupStart(Len(chunk_list), n, g - 1)
            IN  SubSeq(chunk_list, start + 1,
                       start + GroupSize(Len(chunk_list), n, g - 1))]

ChunkLists == UNION {[1..k -> {"x", "y"}] : k \in 0..MaxChunkList}

PartitionCalls ==
    {[fn |-> "_partition_chunks", chunk_list |-> c, n |-> n, done |-> FALSE,
      groups |-> <<>>] : c \in ChunkLists, n \in 1..MaxGroups}

PartitionInit == InitState({"t1"}, {"u1"}, {1}, PartitionCalls)

Partition ==
    /\ calc.fn = "_partition_chunks"
    /\ ~calc.done
    /\ calc' = [calc EXCEPT !.done = TRUE,
                            !.groups = PartitionChunks(calc.chunk_list, calc.n)]
    /\ UNCHANGED <<tests, questions, topic_rows, sem, tick, pc, run, resp, req>>

PartitionNext == Partition

PartitionSpec == PartitionInit /\ [][PartitionNext]_vars

\* C26: for every chunk list and n >= 1 the partition has exactly n groups,
\* the groups joined in order give back the chunk list, and the sizes of any
\* two groups differ by at most one.
C26_PartitionContiguousBalanced ==
    (calc.fn = "_partition_chunks" /\ calc.done) =>
        /\ Len(calc.groups) = calc.n
        /\ Flatten(calc.groups) = calc.chunk_list
        /\ \A g, h \in 1..Len(calc.groups) :
              Len(calc.groups[g]) - Len(calc.groups[h]) <= 1

C26_Witness ==
    /\ calc.fn = "_partition_chunks"
    /\ calc.done
    /\ calc.n = 3
    /\ Len(calc.chunk_list) = 4
    /\ Len(calc.groups[1]) = 2
    /\ Len(calc.groups[3]) = 1

\* ---------------------------------------------------------------------
\* llm/llm_service.py: _rate_limit_wait as concurrent callers run it. The
\* function takes no lock; a caller is pre-empted between reading the shared
\* list and storing the pruned copy, and between the later statements.

RATE_LIMIT_MAX_REQUESTS == 30
RATE_LIMIT_WINDOW_SEC == 60
MaxRequests == 32

Callers == {"c1", "c2"}
\* the instants, in seconds, at which callers run
Instants == {0, 60}
LastInstant == RATE_LIMIT_WINDOW_SEC

IdleCaller == [pc |-> "idle", now |-> 0, kept |-> <<>>, wake |-> 0]

\* [t for t in _rate_limit_window if now - t < _RATE_LIMIT_WINDOW_SEC]
RECURSIVE Unexpired(_, _)
Unexpired(window, now) ==
    IF window = <<>> THEN <<>>
    ELSE IF now - Head(window) < RATE_LIMIT_WINDOW_SEC
         THEN <<Head(window)>> \o Unexpired(Tail(window), now)
         ELSE Unexpired(Tail(window), now)

ThrottleStart ==
    [fn |-> "_rate_limit_wait", window |-> <<>>, clock |-> 0, started |-> 0,
     admitted |-> [t \in Instants |-> 0],
     th |-> [c \in Callers |-> IdleCaller]]

ThrottleInit == InitState({"t1"}, {"u1"}, {1}, {ThrottleStart})

ThrottleUnchanged == UNCHANGED <<tests, questions, topic_rows, sem, tick, pc, run, resp, req>>

\* now = time.monotonic() and the evaluation of the list comprehension
PruneRead(c) ==
    /\ calc.fn = "_rate_limit_wait"
    /\ calc.th[c].pc = "idle"
    /\ calc.started < MaxRequests
    /\ calc' = [calc EXCEPT
                  !.started = @ + 1,
                  !.th[c] = [pc |-> "store", now |-> calc.clock,
                             kept |-> Unexpired(calc.window, calc.clock),
                             wake |-> 0]]
    /\ ThrottleUnchanged

\* _rate_limit_window = [...]; if len(_rate_limit_window) >= 30: sleep_time = ...
PruneStore(c) ==
    /\ calc.fn = "_rate_limit_wait"
    /\ calc.th[c].pc = "store"
    /\ LET me == calc.th[c]
           window == me.kept
           sleep_time == RATE_LIMIT_WINDOW_SEC - (me.now - window[1])
       IN  calc' = [calc EXCEPT
                      !.window = window,
                      !.th[c] =
                         IF Len(window) >= RATE_LIMIT_MAX_REQUESTS
                         THEN [me EXCEPT !.pc = "sleep", !.kept = <<>>,
                                         !.wake = IF sleep_time > 0
                                                  THEN calc.clock + sleep_time
                                                  ELSE calc.clock]
                         ELSE [me EXCEPT !.pc = "append", !.kept = <<>>]]
    /\ ThrottleUnchanged

\* time.sleep(sleep_time) returns; _rate_limit_window = []
WakeAndClear(c) ==
    /\ calc.fn = "_rate_limit_wait"
    /\ calc.th[c].pc = "sleep"
    /\ calc.clock >= calc.th[c].wake
    /\ calc' = [calc EXCEPT !.window = <<>>,
                            !.th[c] = [@ EXCEPT !.pc = "append", !.wake = 0]]
    /\ ThrottleUnchanged

\* _rate_limit_window.append(now); the caller returns and sends its request
AppendAndSend(c) ==
    /\ calc.fn = "_rate_limit_wait"
    /\ calc.th[c].pc = "append"
    /\ calc' = [calc EXCEPT !.window = Append(@, calc.th[c].now),
                            !.admitted[calc.clock] = @ + 1,
                            !.th[c] = IdleCaller]
    /\ ThrottleUnchanged

\* time passes to the next instant
ClockAdvance ==
    /\ calc.fn = "_rate_limit_wait"
    /\ calc.clock < LastInstant
    /\ calc' = [calc EXCEPT !.clock = @ + RATE_LIMIT_WINDOW_SEC]
    /\ ThrottleUnchanged

ThrottleNext ==
    \/ \E c \in Callers : PruneRead(c)
    \/ \E c \in Callers : PruneStore(c)
    \/ \E c \in Callers : WakeAndClear(c)
    \/ \E c \in Callers : AppendAndSend(c)
    \/ ClockAdvance

ThrottleSpec == ThrottleInit /\ [][ThrottleNext]_vars

\* C27: under any interleaving of the callers no more than 30 requests are
\* sent within any window of 60 seconds.
C27_BudgetPerWindow ==
    calc.fn = "_rate_limit_wait" =>
        \A t \in Instants :
            LET inside == {u \in Instants : t <= u /\ u - t < RATE_LIMIT_WINDOW_SEC}
                count[S \in SUBSET inside] ==
                    IF S = {} THEN 0
                    ELSE LET u == CHOOSE u \in S : TRUE
                         IN  calc.admitted[u] + count[S \ {u}]
            IN  count[inside] <= RATE_LIMIT_MAX_REQUESTS

\* ---------------------------------------------------------------------
\* api/tests.py: POST /tests/generate served to several clients at once. The
\* endpoint is a plain def, run on the server's thread pool with a session of
\* its own; the query for an existing job and the commit of the new row are
\* two statements of the database, and other requests run between them.

StartRequests == {"r1", "r2", "r3"}

NewStart == [pc |-> "new", d |-> "none", code |-> 0]

StartCalls == {[fn |-> "start_generation", reqs |-> [r \in StartRequests |-> NewStart]]}

StartInit == InitState({}, {"u1"}, {1}, StartCalls)

\* the checks of start_generation up to the query for an existing job: the
\* status code of the rejection, or 0
StartRejection(u, d, nq) ==
    LET doc == GenDocuments[d]
    IN  IF ~NumQuestionsRange(nq) THEN 422
        ELSE IF ~doc.exists \/ u # "u1" THEN 404
        ELSE IF doc.status # "ready" \/ doc.chars = 0 THEN 400
        ELSE IF \E j \in Jobs : /\ tests[j].document_id = d
                                /\ tests[j].user_id = u
                                /\ tests[j].status \in {"pending", "generating"}
        THEN 409
        ELSE 0

\* lines 116-164: validation and db.query(GeneratedTest)...first()
StartQuery(r, u, d, nq) ==
    /\ calc.fn = "start_generation"
    /\ "reqs" \in DOMAIN calc
    /\ calc.reqs[r].pc = "new"
    /\ LET code == StartRejection(u, d, nq)
       IN  calc' = [calc EXCEPT !.reqs[r] =
                       IF code # 0 THEN [pc |-> "done", d |-> d, code |-> code]
                       ELSE [pc |-> "insert", d |-> d, code |-> 0]]
    /\ UNCHANGED <<tests, questions, topic_rows, sem, tick, pc, run, resp, req>>

\* lines 165-184: db.add(test); db.commit(); add_task(run_generation); 202
StartCommit(r, u, nq) ==
    /\ calc.fn = "start_generation"
    /\ "reqs" \in DOMAIN calc
    /\ calc.reqs[r].pc = "insert"
    /\ Cardinality(Jobs) < Len(GenIds)
    /\ LET id == GenIds[Cardinality(Jobs) + 1]
       IN  /\ tests' = tests @@ (id :> [NewTest(u, Max(1, Min(20, nq)))
                                          EXCEPT !.document_id = calc.reqs[r].d])
           /\ questions' = questions @@ (id :> <<>>)
           /\ pc' = pc @@ (id :> "idle")
           /\ run' = run @@ (id :> NewRun)
           /\ resp' = Response("generate", id, u, 202)
    /\ calc' = [calc EXCEPT !.reqs[r] = [@ EXCEPT !.pc = "done", !.code = 202]]
    /\ UNCHANGED <<topic_rows, sem, tick, req>>

StartNext ==
    \/ \E r \in StartRequests, d \in {"d1", "d2", "d3"}, nq \in {8, 21} :
          StartQuery(r, "u1", d, nq)
    \/ \E r \in StartRequests : StartCommit(r, "u1", 8)

StartSpec == StartInit /\ [][StartNext]_vars

C29_PermitsConserved ==
    /\ sem = SEM_CAPACITY - Cardinality(Holders)
    /\ (\A j \in Jobs : pc[j] = "done") => sem = SEM_CAPACITY

C29_Witness ==
    /\ \A j \in Jobs : pc[j] = "done"
    /\ \E j \in Jobs : run[j].sem_acquired /\ run[j].exit = "exception"
    /\ \E j \in Jobs : run[j].sem_acquired /\ run[j].exit = "finished"
    /\ \E j \in Jobs : ~run[j].sem_acquired
    /\ sem = SEM_CAPACITY

\* ---------------------------------------------------------------------
\* chunking_service.chunk_fixed, one iteration of its while loop per step

WindowTextLen == 4
DEFAULT_FIXED_OVERLAP_CHARS == 200

\* the loop of a call that returns runs at most once per character
MaxWindows == WindowTextLen + 2

\* text[start:end] for any integers start and end
Slice(text, start, end) ==
    LET n == Len(text)
        lo == IF start < 0 THEN Max(n + start, 0) ELSE Min(start, n)
        hi == IF end < 0 THEN Max(n + end, 0) ELSE Min(end, n)
    IN  SubSeq(text, lo + 1, hi)

WindowCalls ==
    {[fn |-> "chunk_fixed", text |-> t, chunk_size |-> c, overlap_chars |-> o,
      at |-> "call", start |-> 0, starts |-> <<>>, chunks |-> <<>>]
        : t \in UNION {[1..n -> Chars] : n \in 0..WindowTextLen},
          c \in 1..3, o \in {0, 1, 2, DEFAULT_FIXED_OVERLAP_CHARS}}

WindowInit == InitState({"t1"}, {"u1"}, {1}, WindowCalls)

\* lines 89-95: the early returns, strip, start = 0
FixedEnter ==
    /\ calc.fn = "chunk_fixed"
    /\ calc.at = "call"
    /\ calc' =
          IF IsBlank(calc.text)
          THEN [calc EXCEPT !.at = "returned"]
          ELSE IF Len(Strip(calc.text)) <= calc.chunk_size
          THEN [calc EXCEPT !.at = "returned", !.text = Strip(calc.text),
                            !.chunks = <<Strip(calc.text)>>]
          ELSE [calc EXCEPT !.at = "loop", !.text = Strip(calc.text)]
    /\ UNCHANGED <<tests, questions, topic_rows, sem, tick, pc, run, resp, req>>

\* lines 96-102: one pass of while start < len(text)
FixedIterate ==
    /\ calc.fn = "chunk_fixed"
    /\ calc.at = "loop"
    /\ calc.start < Len(calc.text)
    /\ Len(calc.chunks) < MaxWindows
    /\ LET end == calc.start + calc.chunk_size
           next == end - calc.overlap_chars
       IN  calc' = [calc EXCEPT
                      !.chunks = Append(@, Slice(calc.text, calc.start, end)),
                      !.starts = Append(@, calc.start),
                      !.start = next,
                      !.at = IF next >= Len(calc.text) THEN "returned" ELSE "loop"]
    /\ UNCHANGED <<tests, questions, topic_rows, sem, tick, pc, run, resp, req>>

WindowNext == FixedEnter \/ FixedIterate

WindowSpec == WindowInit /\ [][WindowNext]_vars /\ WF_vars(WindowNext)

\* C30: chunk_fixed returns for every text, chunk_size >= 1 and
\* overlap_chars >= 0; each window after the first starts at the end of the
\* one before less the overlap, the starts strictly increase, and no chunk is
\* longer than chunk_size.
C30_ChunkFixedTerminates ==
    /\ <>(calc.fn = "chunk_fixed" => calc.at = "returned")
    /\ [](calc.fn = "chunk_fixed" =>
            /\ \A i \in 2..Len(calc.starts) :
                  /\ calc.starts[i] = calc.starts[i - 1] + calc.chunk_size
                                         - calc.overlap_chars
                  /\ calc.starts[i] > calc.starts[i - 1]
            /\ \A i \in 1..Len(calc.chunks) : Len(calc.chunks[i]) <= calc.chunk_size)

====
